---- MODULE Spec2Model ----
(***************************************************************************)
(* Model of the like / liked-playlist synchronisation of the music-app     *)
(* backend: SongService (toggleLikeSong, likeSong, unlikeSong) and          *)
(* PlaylistService (addToLikedSongs, removeFromLikedSongs,                  *)
(* addToRecentlyPlayed, createDefaultPlaylistsForUser,                      *)
(* validatePlaylistOwnership) and the playlist routes over the Song and     *)
(* Playlist collections.  Every `await` of the source is one atomic step    *)
(* of a request; requests interleave between steps.                         *)
(*                                                                          *)
(* Store semantics used by the source:                                      *)
(*  - findOneAndUpdate / findByIdAndUpdate are single atomic document       *)
(*    updates; they do not touch the version key __v.                       *)
(*  - doc.save() sends the delta of the in-memory document: an array push   *)
(*    becomes $push (and $inc __v), splice / array assignment becomes       *)
(*    $set of the whole array guarded by {__v: loaded} (VersionError when   *)
(*    the guard does not match), a changed scalar becomes $set.             *)
(***************************************************************************)
EXTENDS Integers, Sequences, FiniteSets, TLC

\* ------------------------------------------------------------------ bounds
MaxOps == 3      \* operations started in one behaviour
MaxFail == 1     \* injected store failures in one behaviour

\* ------------------------------------------------------------- identifiers
Procs == {"p1", "p2"}
Users == {"u1", "u2"}
Songs == {"s1", "s2"}
NoSong == "s0"                      \* a well-formed id with no Song document
SongIds == Songs \cup {NoSong}
Duration == [s \in Songs |-> IF s = "s1" THEN 2 ELSE 3]

VARIABLES
    song,     \* Song collection: id -> [likedBy, likesCount, v]
    pl,       \* Playlist collection, in insertion order
    pc,       \* position of each request
    arg,      \* [op, user, song] of each request
    loc,      \* in-memory documents and locals of each request
    res,      \* outcome of each request: "none", "ok" or the error message
    nops,     \* operations started
    nfail,    \* store failures injected
    refs,     \* User.playlists: the playlist ids referenced by each user
    oks,      \* fulfilled promises tallied by the caller of concurrent calls
    accounts  \* User collection: the ids that have a user document

vars == <<song, pl, pc, arg, loc, res, nops, nfail, refs, oks, accounts>>

\* ------------------------------------------------------------ sequences
Has(seq, x) == \E i \in 1..Len(seq) : seq[i] = x
Without(seq, x) == SelectSeq(seq, LAMBDA y : y # x)
Occurrences(seq, x) == Cardinality({i \in 1..Len(seq) : seq[i] = x})
IndexOf(seq, x) ==
    IF Has(seq, x) THEN CHOOSE i \in 1..Len(seq) :
                            seq[i] = x /\ \A j \in 1..(i-1) : seq[j] # x
    ELSE 0
RemoveAt(seq, i) == SubSeq(seq, 1, i-1) \o SubSeq(seq, i+1, Len(seq))
Max0(n) == IF n < 0 THEN 0 ELSE n

\* ------------------------------------------------------------ error messages
ErrSongNotFound == "Song not found"
ErrAlreadyLiked == "Song is already liked"
ErrNotLiked == "Song is not liked"
ErrNoLikedPlaylist == "Liked Songs playlist not found"
ErrStore == "StoreError"            \* a store call rejected (timeout, network)
ErrVersion == "VersionError"        \* save() guarded by __v matched no document
ErrEmpty == ""                      \* new Error() of likeSong's rollback
ErrSyncFailed == "Failed to sync with playlist"

\* ------------------------------------------------------------ collections
NewSong == [likedBy |-> <<>>, likesCount |-> 0, v |-> 0]
NewPlaylist(u, t) ==
    [owner |-> u, type |-> t, songs |-> <<>>, totalDuration |-> 0,
     isDefault |-> TRUE, v |-> 0,
     name |-> IF t = "liked" THEN "Liked Songs" ELSE "Recently Played"]
DefaultsOf(u) == <<NewPlaylist(u, "liked"), NewPlaylist(u, "recently_played")>>
AllDefaults == DefaultsOf("u1") \o DefaultsOf("u2")

\* Mutant: the query does not filter by owner.
FindPlaylist_AnyOwner(u, t) ==
    IF \E i \in 1..Len(pl) : pl[i].type = t
    THEN CHOOSE i \in 1..Len(pl) :
             /\ pl[i].type = t
             /\ \A j \in 1..(i-1) : pl[j].type # t
    ELSE 0

\* Playlist.findOne({owner, playlistType}): first match in natural order, 0 = null
FindPlaylist(u, t) ==
    IF \E i \in 1..Len(pl) : pl[i].owner = u /\ pl[i].type = t
    THEN CHOOSE i \in 1..Len(pl) :
             /\ pl[i].owner = u /\ pl[i].type = t
             /\ \A j \in 1..(i-1) : ~(pl[j].owner = u /\ pl[j].type = t)
    ELSE 0

Exists(s) == s \in Songs
IsLikedBy(s, u) == Exists(s) /\ Has(song[s].likedBy, u)
LikedSongsOf(u) == IF FindPlaylist(u, "liked") = 0 THEN <<>>
                   ELSE pl[FindPlaylist(u, "liked")].songs
LikedDurationOf(u) == IF FindPlaylist(u, "liked") = 0 THEN 0
                      ELSE pl[FindPlaylist(u, "liked")].totalDuration

\* ------------------------------------------------------------ request locals
NoLoc ==
    [ret |-> 0, isLiked |-> FALSE, applied |-> "none", comp |-> "none",
     err |-> "none", idx |-> 0, dSongs |-> <<>>, dDur |-> 0, dV |-> 0,
     mLikedBy |-> <<>>, mCount |-> 0, mV |-> 0,
     preLikedBy |-> <<>>, preCount |-> 0, prePl |-> <<>>, preDur |-> 0]

Snapshot(u, s) ==
    [NoLoc EXCEPT !.preLikedBy = IF Exists(s) THEN song[s].likedBy ELSE <<>>,
                  !.preCount = IF Exists(s) THEN song[s].likesCount ELSE 0,
                  !.prePl = LikedSongsOf(u),
                  !.preDur = LikedDurationOf(u)]

FirstStep(op) == CASE op = "toggle" -> "t_add"
                   [] op = "like" -> "l_find"
                   [] op = "unlike" -> "u_find"
                   [] op = "addLiked" -> "a_find"
                   [] op = "removeLiked" -> "r_find"
                   [] op = "play" -> "rp_find"
                   [] op = "init" -> "cd_user"
                   [] op \in {"addSong", "removeSong", "updatePl", "deletePl"}
                        -> "v_find"
                   [] op = "createPl" -> "cp_save"
                   [] op = "register" -> "reg_find"

TypeOK ==
    /\ DOMAIN song = Songs
    /\ \A s \in Songs : song[s].likesCount \in Int
    /\ pc \in [Procs -> {"idle", "done", "t_add", "t_remove", "t_comp_like",
                         "t_comp_unlike", "a_find", "a_song", "a_save",
                         "r_find", "r_song", "r_save", "l_find", "l_save",
                         "l_rollback", "u_find", "u_save", "u_rollback",
                         "rethrow", "rp_find", "rp_songs", "rp_save",
                         "cd_user", "cd_find_liked", "cd_create_liked",
                         "cd_find_recent", "cd_create_recent",
                         "v_find", "as_song", "as_save", "rs_song", "rs_save",
                         "up_save", "dp_delete", "dp_pull", "cp_save",
                         "cp_push", "respond", "reg_find", "reg_save",
                         "replied"}]
    /\ nops \in Nat
    /\ oks \in Nat
    /\ accounts \subseteq Users

\* ------------------------------------------------------------ initial states
InitAccounts(songs, playlists, r, a) ==
    /\ accounts = a
    /\ song = songs
    /\ pl = playlists
    /\ pc = [p \in Procs |-> "idle"]
    /\ arg = [p \in Procs |-> [op |-> "none", user |-> "u1", song |-> "s1"]]
    /\ loc = [p \in Procs |-> NoLoc]
    /\ res = [p \in Procs |-> "none"]
    /\ nops = 0
    /\ nfail = 0
    /\ refs = r
    /\ oks = 0

\* Every user of the model has registered.
InitStore(songs, playlists, r) == InitAccounts(songs, playlists, r, Users)

InitWithRefs(playlists, r) == InitStore([s \in Songs |-> NewSong], playlists, r)

InitWith(playlists) == InitWithRefs(playlists, [u \in Users |-> {}])

Init == InitWith(AllDefaults)

\* ------------------------------------------------------------ request frame
\* A route handler calls the service method.
Start(p, op, u, s) ==
    /\ pc[p] = "idle"
    /\ nops < MaxOps
    /\ nops' = nops + 1
    /\ arg' = [arg EXCEPT ![p] = [op |-> op, user |-> u, song |-> s]]
    /\ loc' = [loc EXCEPT ![p] = Snapshot(u, s)]
    /\ res' = [res EXCEPT ![p] = "none"]
    /\ pc' = [pc EXCEPT ![p] = FirstStep(op)]
    /\ UNCHANGED <<accounts, oks, refs, song, pl, nfail>>

\* The promise of a finished request has been consumed by its caller.
Finish(p) ==
    /\ pc[p] = "done"
    /\ pc' = [pc EXCEPT ![p] = "idle"]
    /\ loc' = [loc EXCEPT ![p] = NoLoc]
    /\ res' = [res EXCEPT ![p] = "none"]
    /\ UNCHANGED <<accounts, oks, refs, song, pl, arg, nops, nfail>>

Quiet == \A p \in Procs : pc[p] = "idle"

\* ------------------------------------------------------------ Song updates
\* Mutant: the $inc of the push is dropped.
PushLike_NoInc(r, u) == [r EXCEPT !.likedBy = Append(r.likedBy, u)]

\* {$push: {likedBy: u}, $inc: {likesCount: 1}}
PushLike(r, u) == [r EXCEPT !.likedBy = Append(r.likedBy, u),
                            !.likesCount = r.likesCount + 1]
\* Mutant: the $inc of the pull is dropped.
PullLike_NoInc(r, u) == [r EXCEPT !.likedBy = Without(r.likedBy, u)]

\* {$pull: {likedBy: u}, $inc: {likesCount: -1}}
PullLike(r, u) == [r EXCEPT !.likedBy = Without(r.likedBy, u),
                            !.likesCount = r.likesCount - 1]

\* ------------------------------------------------------------ control flow
\* Mutant: after a failed playlist step the toggle runs the playlist step again.
CatchPc_Retry(p) ==
    CASE arg[p].op = "toggle" /\ loc[p].applied = "like" -> "a_find"
      [] arg[p].op = "toggle" /\ loc[p].applied = "unlike" -> "r_find"
      [] arg[p].op = "like" -> "l_rollback"
      [] arg[p].op = "unlike" -> "u_rollback"
      [] arg[p].op = "addSong" -> "l_rollback"
      [] arg[p].op = "removeSong" -> "u_rollback"
      [] arg[p].op \in {"addLiked", "removeLiked"} -> "rethrow"

\* Where a request continues when its liked-playlist call throws: the catch
\* block of the calling service method.
CatchPc(p) ==
    CASE arg[p].op = "toggle" /\ loc[p].applied = "like" -> "t_comp_like"
      [] arg[p].op = "toggle" /\ loc[p].applied = "unlike" -> "t_comp_unlike"
      [] arg[p].op = "like" -> "l_rollback"
      [] arg[p].op = "unlike" -> "u_rollback"
      [] arg[p].op = "addSong" -> "l_rollback"
      [] arg[p].op = "removeSong" -> "u_rollback"
      [] arg[p].op \in {"addLiked", "removeLiked"} -> "rethrow"

\* addToLikedSongs / removeFromLikedSongs resolved: the service method returns.
PlReturn(p) ==
    /\ pc' = [pc EXCEPT ![p] = "done"]
    /\ res' = [res EXCEPT ![p] = "ok"]

\* addToLikedSongs / removeFromLikedSongs rejected with error e.
PlThrow(p, e, l) ==
    /\ pc' = [pc EXCEPT ![p] = CatchPc(p)]
    /\ loc' = [loc EXCEPT ![p] = [l EXCEPT !.err = e]]
    /\ res' = res

\* ------------------------------------------------------------ toggleLikeSong
\* Mutant: the update filter does not test likedBy.
T_Add_NoFilter(p) ==
    /\ pc[p] = "t_add"
    /\ LET u == arg[p].user
           s == arg[p].song
       IN  IF Exists(s)
           THEN /\ song' = [song EXCEPT ![s] = PushLike(song[s], u)]
                /\ loc' = [loc EXCEPT ![p].applied = "like",
                                      ![p].isLiked = TRUE,
                                      ![p].ret = song[s].likesCount + 1]
                /\ pc' = [pc EXCEPT ![p] = "a_find"]
           ELSE /\ pc' = [pc EXCEPT ![p] = "t_remove"]
                /\ UNCHANGED <<song, loc>>
    /\ UNCHANGED <<accounts, oks, refs, pl, arg, res, nops, nfail>>

\* Song.findOneAndUpdate({_id, likedBy: {$ne: userId}}, {$push, $inc: 1})
T_Add(p) ==
    /\ pc[p] = "t_add"
    /\ LET u == arg[p].user
           s == arg[p].song
       IN  IF Exists(s) /\ ~Has(song[s].likedBy, u)
           THEN /\ song' = [song EXCEPT ![s] = PushLike(song[s], u)]
                /\ loc' = [loc EXCEPT ![p].applied = "like",
                                      ![p].isLiked = TRUE,
                                      ![p].ret = song[s].likesCount + 1]
                /\ pc' = [pc EXCEPT ![p] = "a_find"]
           ELSE /\ pc' = [pc EXCEPT ![p] = "t_remove"]
                /\ UNCHANGED <<song, loc>>
    /\ UNCHANGED <<accounts, oks, refs, pl, arg, res, nops, nfail>>

\* Mutant: a call for which neither update applied is reported as a success.
T_Remove_NullOk(p) ==
    /\ pc[p] = "t_remove"
    /\ LET u == arg[p].user
           s == arg[p].song
       IN  IF Exists(s) /\ Has(song[s].likedBy, u)
           THEN /\ song' = [song EXCEPT ![s] = PullLike(song[s], u)]
                /\ loc' = [loc EXCEPT ![p].applied = "unlike",
                                      ![p].isLiked = FALSE,
                                      ![p].ret = song[s].likesCount - 1]
                /\ pc' = [pc EXCEPT ![p] = "r_find"]
                /\ res' = res
           ELSE /\ pc' = [pc EXCEPT ![p] = "done"]
                /\ res' = [res EXCEPT ![p] = "ok"]
                /\ UNCHANGED <<song, loc>>
    /\ UNCHANGED <<accounts, oks, refs, pl, arg, nops, nfail>>

\* Song.findOneAndUpdate({_id, likedBy: userId}, {$pull, $inc: -1}); null on
\* both updates throws "Song not found".
T_Remove(p) ==
    /\ pc[p] = "t_remove"
    /\ LET u == arg[p].user
           s == arg[p].song
       IN  IF Exists(s) /\ Has(song[s].likedBy, u)
           THEN /\ song' = [song EXCEPT ![s] = PullLike(song[s], u)]
                /\ loc' = [loc EXCEPT ![p].applied = "unlike",
                                      ![p].isLiked = FALSE,
                                      ![p].ret = song[s].likesCount - 1]
                /\ pc' = [pc EXCEPT ![p] = "r_find"]
                /\ res' = res
           ELSE /\ pc' = [pc EXCEPT ![p] = "done"]
                /\ res' = [res EXCEPT ![p] = ErrSongNotFound]
                /\ UNCHANGED <<song, loc>>
    /\ UNCHANGED <<accounts, oks, refs, pl, arg, nops, nfail>>

\* Mutant: the catch rethrows without the compensating update.
T_CompLike_NoUndo(p) ==
    /\ pc[p] = "t_comp_like"
    /\ loc' = [loc EXCEPT ![p].comp = "ok"]
    /\ pc' = [pc EXCEPT ![p] = "done"]
    /\ res' = [res EXCEPT ![p] = loc[p].err]
    /\ UNCHANGED <<accounts, oks, refs, song, pl, arg, nops, nfail>>

\* catch of the like branch: Song.findByIdAndUpdate(songId, {$pull, $inc: -1}),
\* then rethrow playlistError.
T_CompLike(p) ==
    /\ pc[p] = "t_comp_like"
    /\ LET u == arg[p].user
           s == arg[p].song
       IN  song' = [song EXCEPT ![s] = PullLike(song[s], u)]
    /\ loc' = [loc EXCEPT ![p].comp = "ok"]
    /\ pc' = [pc EXCEPT ![p] = "done"]
    /\ res' = [res EXCEPT ![p] = loc[p].err]
    /\ UNCHANGED <<accounts, oks, refs, pl, arg, nops, nfail>>

\* Mutant: the compensating update pushes the user back without the $inc.
T_CompUnlike_NoInc(p) ==
    /\ pc[p] = "t_comp_unlike"
    /\ LET u == arg[p].user
           s == arg[p].song
       IN  song' = [song EXCEPT ![s].likedBy = Append(song[s].likedBy, u)]
    /\ loc' = [loc EXCEPT ![p].comp = "ok"]
    /\ pc' = [pc EXCEPT ![p] = "done"]
    /\ res' = [res EXCEPT ![p] = loc[p].err]
    /\ UNCHANGED <<accounts, oks, refs, pl, arg, nops, nfail>>

\* catch of the unlike branch: Song.findByIdAndUpdate(songId, {$push, $inc: 1}),
\* then rethrow playlistError.
T_CompUnlike(p) ==
    /\ pc[p] = "t_comp_unlike"
    /\ LET u == arg[p].user
           s == arg[p].song
       IN  song' = [song EXCEPT ![s] = PushLike(song[s], u)]
    /\ loc' = [loc EXCEPT ![p].comp = "ok"]
    /\ pc' = [pc EXCEPT ![p] = "done"]
    /\ res' = [res EXCEPT ![p] = loc[p].err]
    /\ UNCHANGED <<accounts, oks, refs, pl, arg, nops, nfail>>

\* ------------------------------------------------------------ addToLikedSongs
\* Mutant: the includes() check is missing.
A_Find_NoIncludes(p) ==
    /\ pc[p] = "a_find"
    /\ LET i == FindPlaylist(arg[p].user, "liked")
       IN  IF i = 0
           THEN PlThrow(p, ErrNoLikedPlaylist, loc[p])
           ELSE /\ loc' = [loc EXCEPT ![p].idx = i,
                                      ![p].dSongs = pl[i].songs,
                                      ![p].dDur = pl[i].totalDuration,
                                      ![p].dV = pl[i].v]
                /\ pc' = [pc EXCEPT ![p] = "a_song"]
                /\ res' = res
    /\ UNCHANGED <<accounts, oks, refs, song, pl, arg, nops, nfail>>

\* Playlist.findOne({owner, playlistType: "liked"}) and the includes() check.
A_Find(p) ==
    /\ pc[p] = "a_find"
    /\ LET i == FindPlaylist(arg[p].user, "liked")
       IN  IF i = 0
           THEN PlThrow(p, ErrNoLikedPlaylist, loc[p])
           ELSE IF Has(pl[i].songs, arg[p].song)
           THEN PlReturn(p) /\ loc' = loc
           ELSE /\ loc' = [loc EXCEPT ![p].idx = i,
                                      ![p].dSongs = pl[i].songs,
                                      ![p].dDur = pl[i].totalDuration,
                                      ![p].dV = pl[i].v]
                /\ pc' = [pc EXCEPT ![p] = "a_song"]
                /\ res' = res
    /\ UNCHANGED <<accounts, oks, refs, song, pl, arg, nops, nfail>>

\* Song.findById(songId); push and += on the in-memory playlist.
A_Song(p) ==
    /\ pc[p] = "a_song"
    /\ IF ~Exists(arg[p].song)
       THEN PlThrow(p, ErrSongNotFound, loc[p])
       ELSE /\ loc' = [loc EXCEPT
                         ![p].dSongs = Append(loc[p].dSongs, arg[p].song),
                         ![p].dDur = loc[p].dDur + Duration[arg[p].song]]
            /\ pc' = [pc EXCEPT ![p] = "a_save"]
            /\ res' = res
    /\ UNCHANGED <<accounts, oks, refs, song, pl, arg, nops, nfail>>

\* Mutant: the pushed song id is not part of the saved delta.
SavePushed_NoPush(r, s, d) == [r EXCEPT !.totalDuration = d, !.v = r.v + 1]

\* The document written by likedPlaylist.save() after push and +=:
\* {$push: {songs: s}, $set: {totalDuration: d}, $inc: {__v: 1}}.
SavePushed(r, s, d) ==
    [r EXCEPT !.songs = Append(r.songs, s), !.totalDuration = d, !.v = r.v + 1]

\* Mutant: the save writes every playlist of the owner, whatever its type.
A_Save_AnyType(p) ==
    /\ pc[p] = "a_save"
    /\ pl' = [i \in 1..Len(pl) |->
                 IF pl[i].owner = arg[p].user
                 THEN SavePushed(pl[i], arg[p].song, loc[p].dDur)
                 ELSE pl[i]]
    /\ PlReturn(p)
    /\ UNCHANGED <<accounts, oks, refs, song, arg, loc, nops, nfail>>

A_Save(p) ==
    /\ pc[p] = "a_save"
    /\ pl' = [pl EXCEPT ![loc[p].idx] =
                 SavePushed(pl[loc[p].idx], arg[p].song, loc[p].dDur)]
    /\ PlReturn(p)
    /\ UNCHANGED <<accounts, oks, refs, song, arg, loc, nops, nfail>>

\* ------------------------------------------------------------ removeFromLikedSongs
\* Mutant: the song is never found in the list, so nothing is removed.
R_Find_NeverPresent(p) ==
    /\ pc[p] = "r_find"
    /\ LET i == FindPlaylist(arg[p].user, "liked")
       IN  IF i = 0
           THEN PlThrow(p, ErrNoLikedPlaylist, loc[p])
           ELSE PlReturn(p) /\ loc' = loc
    /\ UNCHANGED <<accounts, oks, refs, song, pl, arg, nops, nfail>>

\* Playlist.findOne({owner, playlistType: "liked"}) and songs.indexOf(songId).
R_Find(p) ==
    /\ pc[p] = "r_find"
    /\ LET i == FindPlaylist(arg[p].user, "liked")
       IN  IF i = 0
           THEN PlThrow(p, ErrNoLikedPlaylist, loc[p])
           ELSE IF ~Has(pl[i].songs, arg[p].song)
           THEN PlReturn(p) /\ loc' = loc
           ELSE /\ loc' = [loc EXCEPT ![p].idx = i,
                                      ![p].dSongs = pl[i].songs,
                                      ![p].dDur = pl[i].totalDuration,
                                      ![p].dV = pl[i].v]
                /\ pc' = [pc EXCEPT ![p] = "r_song"]
                /\ res' = res
    /\ UNCHANGED <<accounts, oks, refs, song, pl, arg, nops, nfail>>

\* Mutant: the subtraction is not floored at zero.
R_Song_NoFloor(p) ==
    /\ pc[p] = "r_song"
    /\ loc' = [loc EXCEPT
                 ![p].dDur = IF Exists(arg[p].song)
                             THEN loc[p].dDur - Duration[arg[p].song]
                             ELSE loc[p].dDur,
                 ![p].dSongs = RemoveAt(loc[p].dSongs,
                                        IndexOf(loc[p].dSongs, arg[p].song))]
    /\ pc' = [pc EXCEPT ![p] = "r_save"]
    /\ UNCHANGED <<accounts, oks, refs, song, pl, arg, res, nops, nfail>>

\* Song.findById(songId); Math.max(0, totalDuration - duration) when the song
\* exists; splice(songIndex, 1) on the in-memory playlist.
R_Song(p) ==
    /\ pc[p] = "r_song"
    /\ loc' = [loc EXCEPT
                 ![p].dDur = IF Exists(arg[p].song)
                             THEN Max0(loc[p].dDur - Duration[arg[p].song])
                             ELSE loc[p].dDur,
                 ![p].dSongs = RemoveAt(loc[p].dSongs,
                                        IndexOf(loc[p].dSongs, arg[p].song))]
    /\ pc' = [pc EXCEPT ![p] = "r_save"]
    /\ UNCHANGED <<accounts, oks, refs, song, pl, arg, res, nops, nfail>>

\* The document written by likedPlaylist.save() after splice:
\* {$set: {songs: whole array, totalDuration: d}, $inc: {__v: 1}}.
SaveSpliced(r, ss, d) ==
    [r EXCEPT !.songs = ss, !.totalDuration = d, !.v = r.v + 1]

\* save() after splice is guarded by {__v: loaded version}.
R_Save(p) ==
    /\ pc[p] = "r_save"
    /\ IF pl[loc[p].idx].v = loc[p].dV
       THEN /\ pl' = [pl EXCEPT ![loc[p].idx] =
                        SaveSpliced(pl[loc[p].idx], loc[p].dSongs, loc[p].dDur)]
            /\ PlReturn(p)
            /\ loc' = loc
       ELSE /\ PlThrow(p, ErrVersion, loc[p])
            /\ pl' = pl
    /\ UNCHANGED <<accounts, oks, refs, song, arg, nops, nfail>>

\* ------------------------------------------------------------ Song.save()
\* songSchema.pre("save"): likesCount = likedBy.length; the field is written
\* only when that differs from the value the document was loaded with.
SavedCount(r, m, loaded) == IF Len(m) # loaded THEN Len(m) ELSE r.likesCount

\* song.save() after likedBy.push(u): {$push: {likedBy: u}, $inc: {__v: 1}}
\* plus the counter of the in-memory document m.
SaveSongPushed(r, u, m, loaded) ==
    [r EXCEPT !.likedBy = Append(r.likedBy, u),
              !.likesCount = SavedCount(r, m, loaded),
              !.v = r.v + 1]

\* song.save() after splice / assignment of likedBy: {$set: {likedBy: m}}
\* guarded by __v, plus the counter.
SaveSongSet(r, m, loaded) ==
    [r EXCEPT !.likedBy = m,
              !.likesCount = SavedCount(r, m, loaded),
              !.v = r.v + 1]

\* ------------------------------------------------------------ likeSong
\* Mutant: the already-liked check is missing.
L_Find_NoCheck(p) ==
    /\ pc[p] = "l_find"
    /\ LET u == arg[p].user
           s == arg[p].song
       IN  IF ~Exists(s)
           THEN /\ pc' = [pc EXCEPT ![p] = "done"]
                /\ res' = [res EXCEPT ![p] = ErrSongNotFound]
                /\ loc' = loc
           ELSE /\ loc' = [loc EXCEPT ![p].mLikedBy = Append(song[s].likedBy, u),
                                      ![p].mCount = song[s].likesCount,
                                      ![p].mV = song[s].v]
                /\ pc' = [pc EXCEPT ![p] = "l_save"]
                /\ res' = res
    /\ UNCHANGED <<accounts, oks, refs, song, pl, arg, nops, nfail>>

\* Song.findById, the already-liked check, likedBy.push(userId) in memory.
L_Find(p) ==
    /\ pc[p] = "l_find"
    /\ LET u == arg[p].user
           s == arg[p].song
       IN  IF ~Exists(s)
           THEN /\ pc' = [pc EXCEPT ![p] = "done"]
                /\ res' = [res EXCEPT ![p] = ErrSongNotFound]
                /\ loc' = loc
           ELSE IF Has(song[s].likedBy, u)
           THEN /\ pc' = [pc EXCEPT ![p] = "done"]
                /\ res' = [res EXCEPT ![p] = ErrAlreadyLiked]
                /\ loc' = loc
           ELSE /\ loc' = [loc EXCEPT ![p].mLikedBy = Append(song[s].likedBy, u),
                                      ![p].mCount = song[s].likesCount,
                                      ![p].mV = song[s].v]
                /\ pc' = [pc EXCEPT ![p] = "l_save"]
                /\ res' = res
    /\ UNCHANGED <<accounts, oks, refs, song, pl, arg, nops, nfail>>

\* await song.save() of the pushed document.
L_Save(p) ==
    /\ pc[p] = "l_save"
    /\ LET u == arg[p].user
           s == arg[p].song
       IN  song' = [song EXCEPT ![s] =
                       SaveSongPushed(song[s], u, loc[p].mLikedBy, loc[p].mCount)]
    /\ loc' = [loc EXCEPT ![p].mCount = Len(loc[p].mLikedBy),
                          ![p].mV = loc[p].mV + 1,
                          ![p].ret = Len(loc[p].mLikedBy),
                          ![p].isLiked = TRUE,
                          ![p].applied = "like"]
    /\ pc' = [pc EXCEPT ![p] = "a_find"]
    /\ UNCHANGED <<accounts, oks, refs, pl, arg, res, nops, nfail>>

\* Mutant: the catch saves the document without filtering likedBy.
L_Rollback_NoFilter(p) ==
    /\ pc[p] = "l_rollback"
    /\ LET s == arg[p].song
           m == loc[p].mLikedBy
       IN  IF song[s].v = loc[p].mV
           THEN /\ song' = [song EXCEPT ![s] =
                               SaveSongSet(song[s], m, loc[p].mCount)]
                /\ loc' = [loc EXCEPT ![p].comp = "ok", ![p].mLikedBy = m]
                /\ res' = [res EXCEPT ![p] = ErrEmpty]
           ELSE /\ song' = song
                /\ loc' = [loc EXCEPT ![p].comp = "failed", ![p].mLikedBy = m]
                /\ res' = [res EXCEPT ![p] = ErrVersion]
    /\ pc' = [pc EXCEPT ![p] = "done"]
    /\ UNCHANGED <<accounts, oks, refs, pl, arg, nops, nfail>>

\* catch: likedBy = likedBy.filter(id # userId); await song.save();
\* throw new Error().  The save is guarded by __v.
L_Rollback(p) ==
    /\ pc[p] = "l_rollback"
    /\ LET u == arg[p].user
           s == arg[p].song
           m == Without(loc[p].mLikedBy, u)
       IN  IF song[s].v = loc[p].mV
           THEN /\ song' = [song EXCEPT ![s] =
                               SaveSongSet(song[s], m, loc[p].mCount)]
                /\ loc' = [loc EXCEPT ![p].comp = "ok", ![p].mLikedBy = m]
                /\ res' = [res EXCEPT ![p] = ErrEmpty]
           ELSE /\ song' = song
                /\ loc' = [loc EXCEPT ![p].comp = "failed", ![p].mLikedBy = m]
                /\ res' = [res EXCEPT ![p] = ErrVersion]
    /\ pc' = [pc EXCEPT ![p] = "done"]
    /\ UNCHANGED <<accounts, oks, refs, pl, arg, nops, nfail>>

\* ------------------------------------------------------------ unlikeSong
\* Song.findById, findIndex, likedBy.splice(likedIndex, 1) in memory.
U_Find(p) ==
    /\ pc[p] = "u_find"
    /\ LET u == arg[p].user
           s == arg[p].song
       IN  IF ~Exists(s)
           THEN /\ pc' = [pc EXCEPT ![p] = "done"]
                /\ res' = [res EXCEPT ![p] = ErrSongNotFound]
                /\ loc' = loc
           ELSE IF IndexOf(song[s].likedBy, u) = 0
           THEN /\ pc' = [pc EXCEPT ![p] = "done"]
                /\ res' = [res EXCEPT ![p] = ErrNotLiked]
                /\ loc' = loc
           ELSE /\ loc' = [loc EXCEPT
                             ![p].mLikedBy = RemoveAt(song[s].likedBy,
                                                IndexOf(song[s].likedBy, u)),
                             ![p].mCount = song[s].likesCount,
                             ![p].mV = song[s].v]
                /\ pc' = [pc EXCEPT ![p] = "u_save"]
                /\ res' = res
    /\ UNCHANGED <<accounts, oks, refs, song, pl, arg, nops, nfail>>

\* await song.save() of the spliced document, guarded by __v; a VersionError
\* leaves the method through the outer catch.
U_Save(p) ==
    /\ pc[p] = "u_save"
    /\ LET s == arg[p].song
       IN  IF song[s].v = loc[p].mV
           THEN /\ song' = [song EXCEPT ![s] =
                               SaveSongSet(song[s], loc[p].mLikedBy, loc[p].mCount)]
                /\ loc' = [loc EXCEPT ![p].mCount = Len(loc[p].mLikedBy),
                                      ![p].mV = loc[p].mV + 1,
                                      ![p].ret = Len(loc[p].mLikedBy),
                                      ![p].isLiked = FALSE,
                                      ![p].applied = "unlike"]
                /\ pc' = [pc EXCEPT ![p] = "r_find"]
                /\ res' = res
           ELSE /\ song' = song
                /\ loc' = loc
                /\ pc' = [pc EXCEPT ![p] = "done"]
                /\ res' = [res EXCEPT ![p] = ErrVersion]
    /\ UNCHANGED <<accounts, oks, refs, pl, arg, nops, nfail>>

\* catch: likedBy.push(userId); await song.save();
\* throw new Error("Failed to sync with playlist: ...").
U_Rollback(p) ==
    /\ pc[p] = "u_rollback"
    /\ LET u == arg[p].user
           s == arg[p].song
           m == Append(loc[p].mLikedBy, u)
       IN  /\ song' = [song EXCEPT ![s] =
                          SaveSongPushed(song[s], u, m, loc[p].mCount)]
           /\ loc' = [loc EXCEPT ![p].comp = "ok", ![p].mLikedBy = m]
    /\ res' = [res EXCEPT ![p] = ErrSyncFailed]
    /\ pc' = [pc EXCEPT ![p] = "done"]
    /\ UNCHANGED <<accounts, oks, refs, pl, arg, nops, nfail>>

\* ------------------------------------------------------------ store failures
PlaylistPcs == {"a_find", "a_song", "a_save", "r_find", "r_song", "r_save"}

\* A store call of addToLikedSongs / removeFromLikedSongs rejects; nothing is
\* written and the error leaves the method through its catch-and-rethrow.
PlFail(p) ==
    /\ pc[p] \in PlaylistPcs
    /\ nfail < MaxFail
    /\ nfail' = nfail + 1
    /\ PlThrow(p, ErrStore, loc[p])
    /\ UNCHANGED <<accounts, oks, refs, song, pl, arg, nops>>

\* The compensating findByIdAndUpdate of toggleLikeSong rejects: its error
\* replaces playlistError and leaves through the outer catch-and-rethrow.
CompFail(p) ==
    /\ pc[p] \in {"t_comp_like", "t_comp_unlike"}
    /\ loc' = [loc EXCEPT ![p].comp = "failed"]
    /\ pc' = [pc EXCEPT ![p] = "done"]
    /\ res' = [res EXCEPT ![p] = ErrStore]
    /\ UNCHANGED <<accounts, oks, refs, song, pl, arg, nops, nfail>>

\* ------------------------------------------------------------ specifications
ToggleSteps(p) ==
    \/ T_Add(p) \/ T_Remove(p)
    \/ A_Find(p) \/ A_Song(p) \/ A_Save(p)
    \/ R_Find(p) \/ R_Song(p) \/ R_Save(p)

DirectSteps(p) == L_Find(p) \/ L_Save(p) \/ U_Find(p) \/ U_Save(p)

CompSteps(p) == T_CompLike(p) \/ T_CompUnlike(p)

RollbackSteps(p) == L_Rollback(p) \/ U_Rollback(p)

Ops == {"toggle", "like", "unlike"}

\* Some users may have no default playlists (they are created by a separate
\* call after registration).
InitSome == InitWith(AllDefaults) \/ InitWith(DefaultsOf("u1"))

\* SpecSeq: one public operation at a time, no store failure.
StartSeq(p) ==
    /\ Quiet
    /\ \E op \in Ops, u \in Users, s \in SongIds : Start(p, op, u, s)

NextSeq ==
    \E p \in Procs : StartSeq(p) \/ ToggleSteps(p) \/ DirectSteps(p) \/ Finish(p)
SpecSeq == Init /\ [][NextSeq]_vars

\* SpecSeqFail: one toggleLike at a time; playlist steps and the compensating
\* update may fail.
StartSeqToggle(p) ==
    /\ Quiet
    /\ \E u \in Users, s \in SongIds : Start(p, "toggle", u, s)

NextSeqFail ==
    \E p \in Procs : \/ StartSeqToggle(p) \/ ToggleSteps(p) \/ CompSteps(p)
                     \/ PlFail(p) \/ CompFail(p) \/ Finish(p)
SpecSeqFail == InitSome /\ [][NextSeqFail]_vars

\* SpecConc: concurrent toggleLike calls, no store failure.  The save() of
\* removeFromLikedSongs still throws when it loses the __v guard, so the catch
\* of the unlike branch can run; addToLikedSongs cannot throw here.
StartToggle(p) == \E u \in Users, s \in SongIds : Start(p, "toggle", u, s)

NextConc ==
    \E p \in Procs : \/ StartToggle(p) \/ ToggleSteps(p) \/ T_CompUnlike(p)
                     \/ Finish(p)
SpecConc == Init /\ [][NextConc]_vars

\* SpecToggleFail: concurrent toggleLike calls, playlist steps may fail.
NextToggleFail ==
    \E p \in Procs : \/ StartToggle(p) \/ ToggleSteps(p) \/ CompSteps(p)
                     \/ PlFail(p) \/ Finish(p)
SpecToggleFail == InitSome /\ [][NextToggleFail]_vars

\* SpecFail: concurrent toggleLike, like and unlike calls on one song, playlist
\* steps may fail.
StartAny(p) == \E op \in Ops, u \in Users : Start(p, op, u, "s1")

NextFail ==
    \E p \in Procs : \/ StartAny(p) \/ ToggleSteps(p) \/ DirectSteps(p)
                     \/ CompSteps(p) \/ RollbackSteps(p)
                     \/ PlFail(p) \/ Finish(p)
SpecFail == Init /\ [][NextFail]_vars

\* ------------------------------------------------------------ claims
Done(p, op) == pc[p] = "done" /\ arg[p].op = op
LikedPlaylistUnchanged(p) ==
    /\ LikedSongsOf(arg[p].user) = loc[p].prePl
    /\ LikedDurationOf(arg[p].user) = loc[p].preDur

\* C1: in a sequential execution without store failures, right after a
\* toggleLike(U,S) returns success, S.likesCount = |S.likedBy| and U is in
\* S.likedBy exactly when S is in U's liked playlist.
C1_ToggleConsistent ==
    \A p \in Procs :
        (Done(p, "toggle") /\ res[p] = "ok") =>
            LET u == arg[p].user
                s == arg[p].song
            IN  /\ song[s].likesCount = Len(song[s].likedBy)
                /\ Has(song[s].likedBy, u) <=> Has(LikedSongsOf(u), s)

C1_Witness ==
    \E p \in Procs :
        /\ Done(p, "toggle") /\ res[p] = "ok" /\ nops = 3
        /\ Has(song[arg[p].song].likedBy, arg[p].user)
        /\ Len(song[arg[p].song].likedBy) = 2

\* C2: two toggleLike(U,S) calls that both started from "U has not liked S"
\* and are the only calls made have both finished.
TwoConcurrentToggles(p, q) ==
    /\ p # q /\ nops = 2
    /\ Done(p, "toggle") /\ Done(q, "toggle")
    /\ arg[p] = arg[q]
    /\ ~Has(loc[p].preLikedBy, arg[p].user)
    /\ ~Has(loc[q].preLikedBy, arg[q].user)
    /\ Exists(arg[p].song)

SongUnchanged(p) ==
    /\ song[arg[p].song].likedBy = loc[p].preLikedBy
    /\ song[arg[p].song].likesCount = loc[p].preCount

\* A toggleLike whose playlist step failed after its conditional update
\* applied in the given branch, and whose compensating update succeeded.
Compensated(p, branch) ==
    /\ Done(p, "toggle")
    /\ loc[p].applied = branch
    /\ loc[p].err # "none"
    /\ loc[p].comp = "ok"

\* C3: like-branch compensation.  With no other operation in flight, a
\* toggleLike whose conditional add applied and whose add to the liked
\* playlist failed returns that playlist failure, not success, and leaves U
\* out of S.likedBy, likesCount at its value before the call and the liked
\* playlist unchanged.
C3_LikeCompensation ==
    \A p \in Procs :
        Compensated(p, "like") =>
            /\ res[p] = loc[p].err
            /\ res[p] \in {ErrNoLikedPlaylist, ErrStore}
            /\ ~Has(song[arg[p].song].likedBy, arg[p].user)
            /\ song[arg[p].song].likesCount = loc[p].preCount
            /\ LikedPlaylistUnchanged(p)

C3_Witness ==
    \E p \in Procs :
        /\ Compensated(p, "like") /\ res[p] = ErrStore
        /\ Len(song[arg[p].song].likedBy) = 1

\* C4: unlike-branch compensation.  With no other operation in flight, a
\* toggleLike whose conditional remove applied and whose removal from the
\* liked playlist failed surfaces the failure and leaves U exactly once in
\* S.likedBy, likesCount at its value before the call and the liked playlist
\* unchanged.
C4_UnlikeCompensation ==
    \A p \in Procs :
        Compensated(p, "unlike") =>
            /\ res[p] = loc[p].err
            /\ res[p] # "ok"
            /\ Occurrences(song[arg[p].song].likedBy, arg[p].user) = 1
            /\ song[arg[p].song].likesCount = loc[p].preCount
            /\ LikedPlaylistUnchanged(p)

C4_Witness ==
    \E p \in Procs :
        /\ Compensated(p, "unlike") /\ res[p] = ErrStore
        /\ Has(LikedSongsOf(arg[p].user), arg[p].song)

\* Positions of a call after its song update and before the end of its
\* playlist step or of its compensating update.
PostUpdatePcs == PlaylistPcs \cup {"t_comp_like", "t_comp_unlike"}

\* C5: in every state in which no toggleLike is between its song update and
\* its compensating update, likesCount = |likedBy| for every song.
C5_CountMatchesLikedBy ==
    (\A p \in Procs : pc[p] \notin PostUpdatePcs) =>
        \A s \in Songs : song[s].likesCount = Len(song[s].likedBy)

\* C6: likesCount is never negative, in any reachable state.
C6_CountNonNegative == \A s \in Songs : song[s].likesCount >= 0

\* Every call made so far is a finished toggleLike on one (U,S) pair.
AllTogglesDoneSamePair ==
    /\ nops = Cardinality(Procs)
    /\ \A p \in Procs : Done(p, "toggle") /\ Exists(arg[p].song)
    /\ \A p, q \in Procs : arg[p] = arg[q]

\* C7: once every concurrent toggleLike on the same (U,S) pair has finished
\* (no store failure), U is in S.likedBy exactly when S is in U's liked
\* playlist.
C7_LikeRelationAtQuiescence ==
    AllTogglesDoneSamePair =>
        \A p \in Procs :
            Has(song[arg[p].song].likedBy, arg[p].user)
                <=> Has(LikedSongsOf(arg[p].user), arg[p].song)

\* C8: a toggleLike for a song id that does not exist changes no song and no
\* playlist in any of its steps and ends with "Song not found".
C8_MissingSongNotFound ==
    [][\A p \in Procs :
          (arg'[p].op = "toggle" /\ arg'[p].song = NoSong /\ pc'[p] # pc[p]) =>
              /\ song' = song
              /\ pl' = pl
              /\ (pc'[p] = "done" => res'[p] = ErrSongNotFound)]_vars

C8_Witness ==
    \E p \in Procs :
        /\ Done(p, "toggle") /\ arg[p].song = NoSong
        /\ res[p] = ErrSongNotFound
        /\ \E s \in Songs : Len(song[s].likedBy) > 0

\* C9: like(U,S) on a song U already likes fails with "Song is already liked",
\* unlike(U,S) on a song U does not like fails with "Song is not liked", and
\* neither modifies the song or U's liked playlist.
C9_DirectionalPreconditions ==
    \A p \in Procs :
        /\ (Done(p, "like") /\ Has(loc[p].preLikedBy, arg[p].user)) =>
               /\ res[p] = ErrAlreadyLiked
               /\ SongUnchanged(p)
               /\ LikedPlaylistUnchanged(p)
        /\ (Done(p, "unlike") /\ Exists(arg[p].song)
                /\ ~Has(loc[p].preLikedBy, arg[p].user)) =>
               /\ res[p] = ErrNotLiked
               /\ SongUnchanged(p)
               /\ LikedPlaylistUnchanged(p)

C9_Witness ==
    \E p \in Procs :
        /\ Done(p, "like") /\ res[p] = ErrAlreadyLiked
        /\ Has(LikedSongsOf(arg[p].user), arg[p].song)

\* C10: a toggleLike whose playlist step and compensating update both failed
\* ends with an outcome that is not success and that differs from the playlist
\* failure and from "Song not found".
C10_DualFailureDistinct ==
    \A p \in Procs :
        (Done(p, "toggle") /\ loc[p].comp = "failed") =>
            /\ res[p] # "ok"
            /\ res[p] # ErrSongNotFound
            /\ res[p] # loc[p].err

\* ------------------------------------------------------------ direct playlist calls
\* A caller of addToLikedSongs / removeFromLikedSongs other than SongService
\* (POST /:id/songs of routes/playlists.ts): the rejection reaches the
\* caller's catch unchanged.
Rethrow(p) ==
    /\ pc[p] = "rethrow"
    /\ pc' = [pc EXCEPT ![p] = "done"]
    /\ res' = [res EXCEPT ![p] = loc[p].err]
    /\ UNCHANGED <<accounts, oks, refs, song, pl, arg, loc, nops, nfail>>

LikedSteps(p) ==
    \/ A_Find(p) \/ A_Song(p) \/ A_Save(p)
    \/ R_Find(p) \/ R_Song(p) \/ R_Save(p)

\* SpecLikedPl: addToLikedSongs / removeFromLikedSongs called one at a time,
\* no store failure.
StartSeqLiked(p) ==
    /\ Quiet
    /\ \E op \in {"addLiked", "removeLiked"}, u \in Users, s \in SongIds :
           Start(p, op, u, s)

NextLikedPl ==
    \E p \in Procs : StartSeqLiked(p) \/ LikedSteps(p) \/ Rethrow(p) \/ Finish(p)
SpecLikedPl == Init /\ [][NextLikedPl]_vars

\* C11: addToLikedSongs(U,S) on a liked playlist that already holds S (the
\* second of two calls in sequence) appends nothing and adds no duration; the
\* first call leaves S in the list exactly once with its duration added.
C11_AddToLikedIdempotent ==
    \A p \in Procs :
        Done(p, "addLiked") =>
            /\ Has(loc[p].prePl, arg[p].song) =>
                   /\ res[p] = "ok"
                   /\ LikedPlaylistUnchanged(p)
            /\ (~Has(loc[p].prePl, arg[p].song) /\ Exists(arg[p].song)) =>
                   /\ res[p] = "ok"
                   /\ LikedSongsOf(arg[p].user) =
                          Append(loc[p].prePl, arg[p].song)
                   /\ LikedDurationOf(arg[p].user) =
                          loc[p].preDur + Duration[arg[p].song]

C11_Witness ==
    \E p \in Procs :
        /\ Done(p, "addLiked") /\ res[p] = "ok"
        /\ Has(loc[p].prePl, arg[p].song)
        /\ Len(LikedSongsOf(arg[p].user)) = 2

\* ------------------------------------------------------------ addToRecentlyPlayed
MaxRecent == 50                     \* "Keep only last 50 songs"

\* Song documents that only ever appear in recently-played lists.
Filler(i) == "f" \o ToString(i)
FillerSongs == {Filler(i) : i \in 1..MaxRecent}
Fill(n) == [i \in 1..n |-> Filler(i)]

\* song.duration of a Song document.
DurationOf(s) == IF s \in Songs THEN Duration[s] ELSE 1

ErrNoRecentPlaylist == "Recently Played playlist not found"

RecentSongsOf(u) == IF FindPlaylist(u, "recently_played") = 0 THEN <<>>
                    ELSE pl[FindPlaylist(u, "recently_played")].songs
RecentDurationOf(u) == IF FindPlaylist(u, "recently_played") = 0 THEN 0
                       ELSE pl[FindPlaylist(u, "recently_played")].totalDuration

RECURSIVE SumDurations(_)
\* songs.reduce((total, song) => total + song.duration, 0) over a set of docs.
SumDurations(docs) ==
    IF docs = {} THEN 0
    ELSE LET d == CHOOSE x \in docs : TRUE
         IN  DurationOf(d) + SumDurations(docs \ {d})

\* Song.find({_id: {$in: ids}}): the existing documents among the ids, each once.
FindSongsIn(ids) ==
    {s \in Songs \cup FillerSongs : Has(ids, s)}

\* Mutant: an existing occurrence of the song is not spliced out.
MoveToFront_NoSplice(list, s) ==
    LET m == <<s>> \o list
    IN  IF Len(m) > MaxRecent THEN SubSeq(m, 1, MaxRecent) ELSE m

\* indexOf / splice(existingIndex, 1), unshift(songId), slice(0, 50).
MoveToFront(list, s) ==
    LET i == IndexOf(list, s)
        spliced == IF i > 0 THEN RemoveAt(list, i) ELSE list
        m == <<s>> \o spliced
    IN  IF Len(m) > MaxRecent THEN SubSeq(m, 1, MaxRecent) ELSE m

\* Mutant: a missing playlist is silently ignored.
RP_Find_IgnoreMissing(p) ==
    /\ pc[p] = "rp_find"
    /\ LET i == FindPlaylist(arg[p].user, "recently_played")
       IN  IF i = 0
           THEN /\ pc' = [pc EXCEPT ![p] = "done"]
                /\ res' = [res EXCEPT ![p] = "ok"]
                /\ loc' = loc
           ELSE /\ loc' = [loc EXCEPT
                             ![p].idx = i,
                             ![p].dSongs = MoveToFront(pl[i].songs, arg[p].song),
                             ![p].dDur = pl[i].totalDuration,
                             ![p].dV = pl[i].v]
                /\ pc' = [pc EXCEPT ![p] = "rp_songs"]
                /\ res' = res
    /\ UNCHANGED <<accounts, oks, refs, song, pl, arg, nops, nfail>>

\* Playlist.findOne({owner, playlistType: "recently_played"}), then the list
\* is rearranged in memory.
RP_Find(p) ==
    /\ pc[p] = "rp_find"
    /\ LET i == FindPlaylist(arg[p].user, "recently_played")
       IN  IF i = 0
           THEN /\ pc' = [pc EXCEPT ![p] = "done"]
                /\ res' = [res EXCEPT ![p] = ErrNoRecentPlaylist]
                /\ loc' = loc
           ELSE /\ loc' = [loc EXCEPT
                             ![p].idx = i,
                             ![p].dSongs = MoveToFront(pl[i].songs, arg[p].song),
                             ![p].dDur = pl[i].totalDuration,
                             ![p].dV = pl[i].v]
                /\ pc' = [pc EXCEPT ![p] = "rp_songs"]
                /\ res' = res
    /\ UNCHANGED <<accounts, oks, refs, song, pl, arg, nops, nfail>>

\* Mutant: the duration of the played song is added to the old total.
RecentTotal_Incremental(list, old) == old + DurationOf(list[1])

\* The recomputed totalDuration of the in-memory list.
RecentTotal(list, old) == SumDurations(FindSongsIn(list))

\* Song.find({_id: {$in: songs}}) and the reduce over the result.
RP_Songs(p) ==
    /\ pc[p] = "rp_songs"
    /\ loc' = [loc EXCEPT ![p].dDur = RecentTotal(loc[p].dSongs, loc[p].dDur)]
    /\ pc' = [pc EXCEPT ![p] = "rp_save"]
    /\ UNCHANGED <<accounts, oks, refs, song, pl, arg, res, nops, nfail>>

\* Mutant: the save is not guarded by __v.
RP_Save_Unguarded(p) ==
    /\ pc[p] = "rp_save"
    /\ pl' = [pl EXCEPT ![loc[p].idx] =
                 SaveSpliced(pl[loc[p].idx], loc[p].dSongs, loc[p].dDur)]
    /\ res' = [res EXCEPT ![p] = "ok"]
    /\ pc' = [pc EXCEPT ![p] = "done"]
    /\ UNCHANGED <<accounts, oks, refs, song, arg, loc, nops, nfail>>

\* recentlyPlayedPlaylist.save(): the rearranged array is a $set of the whole
\* array, guarded by __v.
RP_Save(p) ==
    /\ pc[p] = "rp_save"
    /\ IF pl[loc[p].idx].v = loc[p].dV
       THEN /\ pl' = [pl EXCEPT ![loc[p].idx] =
                        SaveSpliced(pl[loc[p].idx], loc[p].dSongs, loc[p].dDur)]
            /\ res' = [res EXCEPT ![p] = "ok"]
       ELSE /\ pl' = pl
            /\ res' = [res EXCEPT ![p] = ErrVersion]
    /\ pc' = [pc EXCEPT ![p] = "done"]
    /\ UNCHANGED <<accounts, oks, refs, song, arg, loc, nops, nfail>>

PlaySteps(p) == RP_Find(p) \/ RP_Songs(p) \/ RP_Save(p)

\* A playback event for user u and song s.
StartPlay(p, u, s) ==
    /\ pc[p] = "idle"
    /\ nops < MaxOps
    /\ nops' = nops + 1
    /\ arg' = [arg EXCEPT ![p] = [op |-> "play", user |-> u, song |-> s]]
    /\ loc' = [loc EXCEPT ![p] = [NoLoc EXCEPT !.prePl = RecentSongsOf(u),
                                               !.preDur = RecentDurationOf(u)]]
    /\ res' = [res EXCEPT ![p] = "none"]
    /\ pc' = [pc EXCEPT ![p] = FirstStep("play")]
    /\ UNCHANGED <<accounts, oks, refs, song, pl, nfail>>

PlayedSongs == Songs \cup {Filler(2)}

\* Recently-played lists a user can have accumulated: empty, one below the
\* maximum, full, and full with a liked song in the last place.
RecentLists == {<<>>, Fill(MaxRecent - 1), Fill(MaxRecent),
                Fill(MaxRecent - 1) \o <<"s1">>}

\* u1 has its default playlists, u2 has none yet.
InitRecent ==
    \E l \in RecentLists :
        InitWith(<<NewPlaylist("u1", "liked"),
                   [NewPlaylist("u1", "recently_played") EXCEPT
                       !.songs = l,
                       !.totalDuration = SumDurations(FindSongsIn(l))]>>)

\* SpecRecentSeq: one recordPlay at a time.
StartSeqPlay(p) ==
    /\ Quiet
    /\ \E u \in Users, s \in PlayedSongs : StartPlay(p, u, s)

NextRecentSeq == \E p \in Procs : StartSeqPlay(p) \/ PlaySteps(p) \/ Finish(p)
SpecRecentSeq == InitRecent /\ [][NextRecentSeq]_vars

\* SpecRecent: concurrent recordPlay calls.
StartAnyPlay(p) == \E u \in Users, s \in PlayedSongs : StartPlay(p, u, s)

NextRecent == \E p \in Procs : StartAnyPlay(p) \/ PlaySteps(p) \/ Finish(p)
SpecRecent == InitRecent /\ [][NextRecent]_vars

NoDuplicates(list) == \A i, j \in 1..Len(list) : list[i] = list[j] => i = j
Take(list, n) == IF Len(list) > n THEN SubSeq(list, 1, n) ELSE list

RECURSIVE SumOfList(_)
SumOfList(list) ==
    IF list = <<>> THEN 0 ELSE DurationOf(Head(list)) + SumOfList(Tail(list))

\* C12: after a successful recordPlay(U,X) run alone on a duplicate-free list
\* L, the list is X followed by the other entries of L in their old order, cut
\* to the first 50 entries; X is first and appears once.
C12_MoveToFront ==
    \A p \in Procs :
        (Done(p, "play") /\ res[p] = "ok" /\ NoDuplicates(loc[p].prePl)) =>
            LET now == RecentSongsOf(arg[p].user)
            IN  /\ now = Take(<<arg[p].song>> \o Without(loc[p].prePl, arg[p].song),
                              MaxRecent)
                /\ now[1] = arg[p].song
                /\ Occurrences(now, arg[p].song) = 1
                /\ Len(now) <= MaxRecent

\* A play of a song that is not in a full list: the last entry is dropped.
C12_Witness ==
    \E p \in Procs :
        /\ Done(p, "play") /\ res[p] = "ok"
        /\ Len(loc[p].prePl) = MaxRecent
        /\ ~Has(loc[p].prePl, arg[p].song)
        /\ ~Has(RecentSongsOf(arg[p].user), loc[p].prePl[MaxRecent])

\* C13: the total-duration of every recently-played playlist is the sum of
\* the durations of the songs in its list, so after every successful
\* recordPlay a song trimmed off the tail is no longer counted.
C13_RecentDuration ==
    \A i \in 1..Len(pl) :
        pl[i].type = "recently_played" =>
            pl[i].totalDuration = SumOfList(pl[i].songs)

\* A play that trimmed a song of another duration off a full list.
C13_Witness ==
    \E p \in Procs :
        /\ Done(p, "play") /\ res[p] = "ok"
        /\ Len(loc[p].prePl) = MaxRecent
        /\ ~Has(loc[p].prePl, arg[p].song)
        /\ RecentDurationOf(arg[p].user) # loc[p].preDur + DurationOf(arg[p].song)

\* C14: every step of a recordPlay for a user without a recently-played
\* playlist leaves all playlists and all songs unchanged, and the call ends
\* with "Recently Played playlist not found".
C14_NoRecentPlaylist ==
    [][\A p \in Procs :
          (/\ arg'[p].op = "play" /\ pc'[p] # pc[p]
           /\ FindPlaylist(arg'[p].user, "recently_played") = 0) =>
              /\ pl' = pl
              /\ song' = song
              /\ (pc'[p] = "done" => res'[p] = ErrNoRecentPlaylist)]_vars

C14_Witness ==
    \E p \in Procs :
        /\ Done(p, "play") /\ res[p] = ErrNoRecentPlaylist
        /\ FindPlaylist(arg[p].user, "recently_played") = 0
        /\ \E q \in Procs : q # p /\ pc[q] = "rp_save"

\* ------------------------------------------------ createDefaultPlaylistsForUser
NoUser == "u0"                      \* an id for which User.findById returns null
UserIds == Users \cup {NoUser}
ErrUserNotFound == "User not found"
DefaultTypes == {"liked", "recently_played"}

\* Number of playlists of type t owned by u.
CountIn(list, u, t) ==
    Cardinality({i \in 1..Len(list) : list[i].owner = u /\ list[i].type = t})
CountOf(u, t) == CountIn(pl, u, t)

\* User.findById(userId)
CD_User(p) ==
    /\ pc[p] = "cd_user"
    /\ IF arg[p].user \in accounts
       THEN /\ pc' = [pc EXCEPT ![p] = "cd_find_liked"]
            /\ res' = res
       ELSE /\ pc' = [pc EXCEPT ![p] = "done"]
            /\ res' = [res EXCEPT ![p] = ErrUserNotFound]
    /\ UNCHANGED <<accounts, oks, refs, song, pl, arg, loc, nops, nfail>>

\* Mutant: the liked playlist is created without looking at the findOne result.
CD_FindLiked_NoCheck(p) ==
    /\ pc[p] = "cd_find_liked"
    /\ pc' = [pc EXCEPT ![p] = "cd_create_liked"]
    /\ UNCHANGED <<accounts, oks, refs, song, pl, arg, loc, res, nops, nfail>>

\* Playlist.findOne({owner, playlistType: "liked"})
CD_FindLiked(p) ==
    /\ pc[p] = "cd_find_liked"
    /\ pc' = [pc EXCEPT ![p] = IF FindPlaylist(arg[p].user, "liked") = 0
                               THEN "cd_create_liked" ELSE "cd_find_recent"]
    /\ UNCHANGED <<accounts, oks, refs, song, pl, arg, loc, res, nops, nfail>>

\* Playlist.create({owner, isDefault: true, playlistType: t}); the
\* (owner, playlistType) index is not unique, so the insert always succeeds.
CreateDefault(u, t) == Append(pl, NewPlaylist(u, t))

CD_CreateLiked(p) ==
    /\ pc[p] = "cd_create_liked"
    /\ pl' = CreateDefault(arg[p].user, "liked")
    /\ pc' = [pc EXCEPT ![p] = "cd_find_recent"]
    /\ UNCHANGED <<accounts, oks, refs, song, arg, loc, res, nops, nfail>>

\* Playlist.findOne({owner, playlistType: "recently_played"})
CD_FindRecent(p) ==
    /\ pc[p] = "cd_find_recent"
    /\ IF FindPlaylist(arg[p].user, "recently_played") = 0
       THEN /\ pc' = [pc EXCEPT ![p] = "cd_create_recent"]
            /\ res' = res
       ELSE /\ pc' = [pc EXCEPT ![p] = "done"]
            /\ res' = [res EXCEPT ![p] = "ok"]
    /\ UNCHANGED <<accounts, oks, refs, song, pl, arg, loc, nops, nfail>>

CD_CreateRecent(p) ==
    /\ pc[p] = "cd_create_recent"
    /\ pl' = CreateDefault(arg[p].user, "recently_played")
    /\ pc' = [pc EXCEPT ![p] = "done"]
    /\ res' = [res EXCEPT ![p] = "ok"]
    /\ UNCHANGED <<accounts, oks, refs, song, arg, loc, nops, nfail>>

InitSteps(p) ==
    \/ CD_User(p) \/ CD_FindLiked(p) \/ CD_CreateLiked(p)
    \/ CD_FindRecent(p) \/ CD_CreateRecent(p)

\* POST /init-defaults, POST /register: the initializer is called for u; the
\* number of default playlists u has at the call is kept for the claims.
StartInit(p, u) ==
    /\ pc[p] = "idle"
    /\ nops < MaxOps
    /\ nops' = nops + 1
    /\ arg' = [arg EXCEPT ![p] = [op |-> "init", user |-> u, song |-> NoSong]]
    /\ loc' = [loc EXCEPT ![p] =
                 [NoLoc EXCEPT !.preCount = CountOf(u, "liked")
                                            + CountOf(u, "recently_played")]]
    /\ res' = [res EXCEPT ![p] = "none"]
    /\ pc' = [pc EXCEPT ![p] = FirstStep("init")]
    /\ UNCHANGED <<accounts, oks, refs, song, pl, nfail>>

\* No playlist exists before the first registration.
InitEmpty == InitWith(<<>>)

\* SpecDefaultsSeq: one initializer call at a time.
StartSeqInit(p) == Quiet /\ \E u \in UserIds : StartInit(p, u)
NextDefaultsSeq == \E p \in Procs : StartSeqInit(p) \/ InitSteps(p) \/ Finish(p)
SpecDefaultsSeq == InitEmpty /\ [][NextDefaultsSeq]_vars

\* SpecDefaults: concurrent initializer calls.
StartAnyInit(p) == \E u \in UserIds : StartInit(p, u)
NextDefaults == \E p \in Procs : StartAnyInit(p) \/ InitSteps(p) \/ Finish(p)
SpecDefaults == InitEmpty /\ [][NextDefaults]_vars

\* C15: with one initializer call at a time, a finished call for an existing
\* user leaves exactly one "liked" and one "recently_played" playlist of that
\* user, and no step of a call made when the user already had both changes
\* any playlist or playlist reference.
C15_CreateDefaultsIdempotent ==
    [][\A p \in Procs :
          /\ (pc'[p] = "done" /\ arg'[p].op = "init" /\ res'[p] = "ok") =>
                \A t \in DefaultTypes : CountIn(pl', arg'[p].user, t) = 1
          /\ (arg'[p].op = "init" /\ pc'[p] # pc[p] /\ pc[p] # "idle"
              /\ loc[p].preCount = 2) =>
                (pl' = pl /\ refs' = refs)]_vars

\* A second run for a user whose defaults exist has returned.
C15_Witness ==
    \E p \in Procs :
        /\ Done(p, "init") /\ res[p] = "ok"
        /\ loc[p].preCount = 2
        /\ Len(pl) = 2

\* C16: in every state each user owns at most one "liked" and at most one
\* "recently_played" playlist.
C16_AtMostOneDefault ==
    \A u \in Users, t \in DefaultTypes : CountOf(u, t) <= 1

\* ------------------------------------------------------------ playlist routes
ErrPlaylistNotFound == "Playlist not found"
ErrAccessDenied == "Access denied. You can only access your own playlists"
ErrForbiddenRecent == "Cannot manually remove songs from Recently Played playlist"
ErrAlreadyPresent == "Song is already in the playlist"
ErrNotInPlaylist == "Song not found in this playlist"
ErrSongNotInDb == "Song not found in database"
ErrDeleteDefault == "Cannot delete default playlist"
ErrGone == "No document found"

\* new Playlist({name, owner, songs: [], isDefault: false, playlistType: "custom"})
NewCustom(u, n) ==
    [NewPlaylist(u, "custom") EXCEPT !.isDefault = FALSE, !.name = n]

\* The place of a deleted playlist: no id, owner or type matches it again.
Deleted == [NewPlaylist(NoUser, "deleted") EXCEPT !.isDefault = FALSE, !.name = ""]

\* Playlist.findById(id) returns a document.
PlaylistExists(id) == id \in 1..Len(pl) /\ pl[id] # Deleted

RouteOps == {"addSong", "removeSong", "updatePl", "deletePl"}
NewName == "mix"                    \* the name sent by PUT /:id
CreatedName == "new"                \* the name sent by POST /

\* Mutant: the owner comparison of validatePlaylistOwnership is dropped.
Validate_NoOwnerCheck(id, u) ==
    IF ~PlaylistExists(id) THEN ErrPlaylistNotFound ELSE "ok"

\* PlaylistService.validatePlaylistOwnership: "ok" or the error it throws.
Validate(id, u) ==
    IF ~PlaylistExists(id) THEN ErrPlaylistNotFound
    ELSE IF pl[id].owner # u THEN ErrAccessDenied
    ELSE "ok"

\* The code of a route between validatePlaylistOwnership and its next await:
\* the next await, or the message of the response sent before it.
AfterValidate(op, r, s) ==
    CASE op = "addSong" -> "as_song"
      [] op = "removeSong" ->
            IF r.type = "recently_played" THEN ErrForbiddenRecent
            ELSE IF r.type = "liked" THEN "u_find"
            ELSE IF ~Has(r.songs, s) THEN ErrNotInPlaylist
            ELSE "rs_song"
      [] op = "updatePl" -> "up_save"
      [] op = "deletePl" -> "dp_delete"

RoutePcs == {"as_song", "u_find", "rs_song", "up_save", "dp_delete"}

\* await PlaylistService.validatePlaylistOwnership(id, req.user._id)
V_Find(p) ==
    /\ pc[p] = "v_find"
    /\ LET id == arg[p].pid
           v == Validate(id, arg[p].user)
       IN  IF v # "ok"
           THEN /\ pc' = [pc EXCEPT ![p] = "done"]
                /\ res' = [res EXCEPT ![p] = v]
                /\ loc' = loc
           ELSE LET n == AfterValidate(arg[p].op, pl[id], arg[p].song)
                IN  /\ loc' = [loc EXCEPT ![p].idx = id,
                                          ![p].dSongs = pl[id].songs,
                                          ![p].dDur = pl[id].totalDuration,
                                          ![p].dV = pl[id].v]
                    /\ IF n \in RoutePcs
                       THEN /\ pc' = [pc EXCEPT ![p] = n]
                            /\ res' = res
                       ELSE /\ pc' = [pc EXCEPT ![p] = "done"]
                            /\ res' = [res EXCEPT ![p] = n]
    /\ UNCHANGED <<accounts, oks, refs, song, pl, arg, nops, nfail>>

\* Mutant: the includes() check of POST /:id/songs is dropped.
AS_Song_NoIncludes(p) ==
    /\ pc[p] = "as_song"
    /\ LET s == arg[p].song
       IN  IF ~Exists(s)
           THEN /\ pc' = [pc EXCEPT ![p] = "done"]
                /\ res' = [res EXCEPT ![p] = ErrSongNotFound]
                /\ loc' = loc
           ELSE IF pl[loc[p].idx].type = "liked"
           THEN /\ pc' = [pc EXCEPT ![p] = "l_find"]
                /\ UNCHANGED <<res, loc>>
           ELSE /\ loc' = [loc EXCEPT ![p].dSongs = Append(loc[p].dSongs, s),
                                      ![p].dDur = loc[p].dDur + Duration[s]]
                /\ pc' = [pc EXCEPT ![p] = "as_save"]
                /\ res' = res
    /\ UNCHANGED <<accounts, oks, refs, song, pl, arg, nops, nfail>>

\* POST /:id/songs: await Song.findById(songId), then the branch on the
\* playlist type up to the next await.
AS_Song(p) ==
    /\ pc[p] = "as_song"
    /\ LET s == arg[p].song
       IN  IF ~Exists(s)
           THEN /\ pc' = [pc EXCEPT ![p] = "done"]
                /\ res' = [res EXCEPT ![p] = ErrSongNotFound]
                /\ loc' = loc
           ELSE IF pl[loc[p].idx].type = "liked"
           THEN /\ pc' = [pc EXCEPT ![p] = "l_find"]
                /\ UNCHANGED <<res, loc>>
           ELSE IF Has(loc[p].dSongs, s)
           THEN /\ pc' = [pc EXCEPT ![p] = "done"]
                /\ res' = [res EXCEPT ![p] = ErrAlreadyPresent]
                /\ loc' = loc
           ELSE /\ loc' = [loc EXCEPT ![p].dSongs = Append(loc[p].dSongs, s),
                                      ![p].dDur = loc[p].dDur + Duration[s]]
                /\ pc' = [pc EXCEPT ![p] = "as_save"]
                /\ res' = res
    /\ UNCHANGED <<accounts, oks, refs, song, pl, arg, nops, nfail>>

\* POST /:id/songs: await playlist.save() after push and +=.
AS_Save(p) ==
    /\ pc[p] = "as_save"
    /\ IF PlaylistExists(loc[p].idx)
       THEN /\ pl' = [pl EXCEPT ![loc[p].idx] =
                        SavePushed(pl[loc[p].idx], arg[p].song, loc[p].dDur)]
            /\ res' = [res EXCEPT ![p] = "ok"]
       ELSE /\ pl' = pl
            /\ res' = [res EXCEPT ![p] = ErrGone]
    /\ pc' = [pc EXCEPT ![p] = "done"]
    /\ UNCHANGED <<accounts, oks, refs, song, arg, loc, nops, nfail>>

\* DELETE /:id/songs/:songId: await Song.findById(songId), splice, Math.max.
RS_Song(p) ==
    /\ pc[p] = "rs_song"
    /\ LET s == arg[p].song
       IN  IF ~Exists(s)
           THEN /\ pc' = [pc EXCEPT ![p] = "done"]
                /\ res' = [res EXCEPT ![p] = ErrSongNotInDb]
                /\ loc' = loc
           ELSE /\ loc' = [loc EXCEPT
                             ![p].dSongs = RemoveAt(loc[p].dSongs,
                                                    IndexOf(loc[p].dSongs, s)),
                             ![p].dDur = Max0(loc[p].dDur - Duration[s])]
                /\ pc' = [pc EXCEPT ![p] = "rs_save"]
                /\ res' = res
    /\ UNCHANGED <<accounts, oks, refs, song, pl, arg, nops, nfail>>

\* DELETE /:id/songs/:songId: await playlist.save() after splice.
RS_Save(p) ==
    /\ pc[p] = "rs_save"
    /\ IF ~PlaylistExists(loc[p].idx)
       THEN /\ pl' = pl
            /\ res' = [res EXCEPT ![p] = ErrGone]
       ELSE IF pl[loc[p].idx].v # loc[p].dV
       THEN /\ pl' = pl
            /\ res' = [res EXCEPT ![p] = ErrVersion]
       ELSE /\ pl' = [pl EXCEPT ![loc[p].idx] =
                        SaveSpliced(pl[loc[p].idx], loc[p].dSongs, loc[p].dDur)]
            /\ res' = [res EXCEPT ![p] = "ok"]
    /\ pc' = [pc EXCEPT ![p] = "done"]
    /\ UNCHANGED <<accounts, oks, refs, song, arg, loc, nops, nfail>>

\* Mutant: the update also clears the is-default flag.
UP_Save_ClearsDefault(p) ==
    /\ pc[p] = "up_save"
    /\ IF PlaylistExists(loc[p].idx)
       THEN /\ pl' = [pl EXCEPT ![loc[p].idx].name = NewName,
                                ![loc[p].idx].isDefault = FALSE]
            /\ res' = [res EXCEPT ![p] = "ok"]
       ELSE /\ pl' = pl
            /\ res' = [res EXCEPT ![p] = ErrGone]
    /\ pc' = [pc EXCEPT ![p] = "done"]
    /\ UNCHANGED <<accounts, oks, refs, song, arg, loc, nops, nfail>>

\* PUT /:id: playlist.name = name.trim(); await playlist.save().
UP_Save(p) ==
    /\ pc[p] = "up_save"
    /\ IF PlaylistExists(loc[p].idx)
       THEN /\ pl' = [pl EXCEPT ![loc[p].idx].name = NewName]
            /\ res' = [res EXCEPT ![p] = "ok"]
       ELSE /\ pl' = pl
            /\ res' = [res EXCEPT ![p] = ErrGone]
    /\ pc' = [pc EXCEPT ![p] = "done"]
    /\ UNCHANGED <<accounts, oks, refs, song, arg, loc, nops, nfail>>

\* Mutant: the pre("deleteOne") hook lets default playlists through.
DP_Delete_NoHook(p) ==
    /\ pc[p] = "dp_delete"
    /\ pl' = [pl EXCEPT ![loc[p].idx] = Deleted]
    /\ pc' = [pc EXCEPT ![p] = "dp_pull"]
    /\ res' = res
    /\ UNCHANGED <<accounts, oks, refs, song, arg, loc, nops, nfail>>

\* DELETE /:id: await playlist.deleteOne(); the pre("deleteOne") document hook
\* looks at isDefault of the loaded document, which never changes.
DP_Delete(p) ==
    /\ pc[p] = "dp_delete"
    /\ IF pl[loc[p].idx].isDefault
       THEN /\ pl' = pl
            /\ pc' = [pc EXCEPT ![p] = "done"]
            /\ res' = [res EXCEPT ![p] = ErrDeleteDefault]
       ELSE /\ pl' = [pl EXCEPT ![loc[p].idx] = Deleted]
            /\ pc' = [pc EXCEPT ![p] = "dp_pull"]
            /\ res' = res
    /\ UNCHANGED <<accounts, oks, refs, song, arg, loc, nops, nfail>>

\* DELETE /:id: await User.findByIdAndUpdate(user, {$pull: {playlists: id}})
DP_Pull(p) ==
    /\ pc[p] = "dp_pull"
    /\ refs' = [refs EXCEPT ![arg[p].user] = @ \ {loc[p].idx}]
    /\ pc' = [pc EXCEPT ![p] = "done"]
    /\ res' = [res EXCEPT ![p] = "ok"]
    /\ UNCHANGED <<accounts, oks, song, pl, arg, loc, nops, nfail>>

\* POST /: await playlist.save() of a new custom playlist.
CP_Save(p) ==
    /\ pc[p] = "cp_save"
    /\ pl' = Append(pl, NewCustom(arg[p].user, CreatedName))
    /\ loc' = [loc EXCEPT ![p].idx = Len(pl) + 1]
    /\ pc' = [pc EXCEPT ![p] = "cp_push"]
    /\ UNCHANGED <<accounts, oks, refs, song, arg, res, nops, nfail>>

\* POST /: await User.findByIdAndUpdate(user, {$push: {playlists: id}})
CP_Push(p) ==
    /\ pc[p] = "cp_push"
    /\ refs' = [refs EXCEPT ![arg[p].user] = @ \cup {loc[p].idx}]
    /\ pc' = [pc EXCEPT ![p] = "done"]
    /\ res' = [res EXCEPT ![p] = "ok"]
    /\ UNCHANGED <<accounts, oks, song, pl, arg, loc, nops, nfail>>

RouteSteps(p) ==
    \/ V_Find(p) \/ AS_Song(p) \/ AS_Save(p) \/ RS_Song(p) \/ RS_Save(p)
    \/ UP_Save(p) \/ DP_Delete(p) \/ DP_Pull(p) \/ CP_Save(p) \/ CP_Push(p)

\* songs and totalDuration of the playlist with the given id.
SongsOfId(id) == IF id \in 1..Len(pl) THEN pl[id].songs ELSE <<>>
DurationOfId(id) == IF id \in 1..Len(pl) THEN pl[id].totalDuration ELSE 0

MaxRequests == 2                    \* requests per behaviour of SpecRoutes

\* A request of user u on the playlist id and the song s.
StartRoute(p, op, u, id, s) ==
    /\ pc[p] = "idle"
    /\ nops < MaxRequests
    /\ nops' = nops + 1
    /\ arg' = [arg EXCEPT ![p] = [op |-> op, user |-> u, song |-> s, pid |-> id]]
    /\ loc' = [loc EXCEPT ![p] =
                 [Snapshot(u, s) EXCEPT !.prePl = SongsOfId(id),
                                        !.preDur = DurationOfId(id)]]
    /\ res' = [res EXCEPT ![p] = "none"]
    /\ pc' = [pc EXCEPT ![p] = FirstStep(op)]
    /\ UNCHANGED <<accounts, oks, refs, song, pl, nfail>>

SongOps == {"addSong", "removeSong"}
PlaylistOps == {"updatePl", "deletePl"}

\* Every user has registered; u1 has played s1, created a playlist and added
\* s1 to it.
InitRoutes ==
    InitWithRefs(
        [AllDefaults EXCEPT ![2].songs = <<"s1">>,
                            ![2].totalDuration = Duration["s1"]]
        \o <<SavePushed(NewCustom("u1", CreatedName), "s1", Duration["s1"])>>,
        [u \in Users |-> IF u = "u1" THEN {Len(AllDefaults) + 1} ELSE {}])

\* SpecRoutes: the playlist routes, one request at a time.
StartSeqRoute(p) ==
    /\ Quiet
    /\ \E u \in Users :
          \/ \E op \in SongOps, id \in 0..Len(pl), s \in SongIds :
                StartRoute(p, op, u, id, s)
          \/ \E op \in PlaylistOps, id \in 0..Len(pl) :
                StartRoute(p, op, u, id, NoSong)
          \/ StartRoute(p, "createPl", u, 0, NoSong)

\* res.status(...).json(...) or next(error): the request is over.
Respond(p) ==
    /\ pc[p] = "done"
    /\ pc' = [pc EXCEPT ![p] = "idle"]
    /\ arg' = [arg EXCEPT ![p] = [op |-> "none", user |-> "u1", song |-> "s1"]]
    /\ loc' = [loc EXCEPT ![p] = NoLoc]
    /\ res' = [res EXCEPT ![p] = "none"]
    /\ UNCHANGED <<accounts, oks, refs, song, pl, nops, nfail>>

NextRoutes ==
    \E p \in Procs :
        \/ StartSeqRoute(p) \/ RouteSteps(p) \/ DirectSteps(p) \/ LikedSteps(p)
        \/ Respond(p)
SpecRoutes == InitRoutes /\ [][NextRoutes]_vars

\* The playlist a finished request addressed has the songs and the
\* total-duration it had when the request arrived.
TargetUnchanged(p) ==
    /\ SongsOfId(arg[p].pid) = loc[p].prePl
    /\ DurationOfId(arg[p].pid) = loc[p].preDur

\* C17: a finished remove-song request on a playlist of type
\* "recently_played" has failed with Forbidden, whoever the caller is, and
\* the playlist is unchanged.
C17_RecentRemoveForbidden ==
    \A p \in Procs :
        (/\ Done(p, "removeSong")
         /\ PlaylistExists(arg[p].pid)
         /\ pl[arg[p].pid].type = "recently_played") =>
            /\ res[p] = ErrForbiddenRecent
            /\ TargetUnchanged(p)

\* C18: a playlist whose is-default flag is true exists with that flag after
\* every step; no step of a delete request on it changes a playlist or a
\* user's playlist references, and the request does not end in success.
C18_DefaultNotDeleted ==
    [][/\ \A id \in 1..Len(pl) :
             pl[id].isDefault => (pl'[id].isDefault /\ pl'[id] # Deleted)
       /\ \A p \in Procs :
             (/\ arg'[p].op = "deletePl" /\ pc'[p] # pc[p]
              /\ PlaylistExists(arg'[p].pid) /\ pl[arg'[p].pid].isDefault) =>
                 /\ pl' = pl
                 /\ refs' = refs
                 /\ (pc'[p] = "done" => res'[p] \notin {"ok", "none"})]_vars

\* The owner's delete request on a default playlist was rejected by the hook.
C18_Witness ==
    \E p \in Procs :
        /\ Done(p, "deletePl") /\ res[p] = ErrDeleteDefault
        /\ pl[arg[p].pid].owner = arg[p].user
        /\ pl[arg[p].pid].isDefault

\* C19: the ownership check of an add-song, remove-song, update or delete
\* request ends the request with "Playlist not found" when the playlist does
\* not exist and with "Access denied" when its owner is not the caller, and
\* no step of a request of a non-owner changes a playlist or a reference.
C19_OwnershipGuard ==
    [][\A p \in Procs :
          (arg'[p].op \in RouteOps /\ pc'[p] # pc[p]) =>
             LET id == arg'[p].pid
                 u == arg'[p].user
             IN  /\ (pc[p] = "v_find" /\ ~PlaylistExists(id)) =>
                        (pc'[p] = "done" /\ res'[p] = ErrPlaylistNotFound)
                 /\ (pc[p] = "v_find" /\ PlaylistExists(id) /\ pl[id].owner # u) =>
                        (pc'[p] = "done" /\ res'[p] = ErrAccessDenied)
                 /\ (PlaylistExists(id) /\ pl[id].owner # u) =>
                        (pl' = pl /\ refs' = refs /\ song' = song)]_vars

\* A non-owner asked to remove a song that is in a custom playlist.
C19_Witness ==
    \E p \in Procs :
        /\ Done(p, "removeSong") /\ res[p] = ErrAccessDenied
        /\ pl[arg[p].pid].type = "custom"
        /\ Has(pl[arg[p].pid].songs, arg[p].song)

\* C20: with one request at a time, a finished add-song request of the owner
\* of a custom playlist for an existing song has failed with "already in the
\* playlist" and left the playlist unchanged when the song was in it, and has
\* otherwise appended the song and added its duration; no custom playlist
\* holds a song twice.
C20_AddSongCustom ==
    /\ \A p \in Procs :
          (/\ Done(p, "addSong")
           /\ PlaylistExists(arg[p].pid)
           /\ pl[arg[p].pid].owner = arg[p].user
           /\ pl[arg[p].pid].type = "custom"
           /\ Exists(arg[p].song)) =>
              IF Has(loc[p].prePl, arg[p].song)
              THEN res[p] = ErrAlreadyPresent /\ TargetUnchanged(p)
              ELSE /\ res[p] = "ok"
                   /\ SongsOfId(arg[p].pid) = Append(loc[p].prePl, arg[p].song)
                   /\ DurationOfId(arg[p].pid)
                        = loc[p].preDur + Duration[arg[p].song]
    /\ \A id \in 1..Len(pl) :
          pl[id].type = "custom" => NoDuplicates(pl[id].songs)

\* The owner added a song that was already in the custom playlist.
C20_Witness ==
    \E p \in Procs :
        /\ Done(p, "addSong") /\ res[p] = ErrAlreadyPresent
        /\ pl[arg[p].pid].type = "custom"
        /\ pl[arg[p].pid].owner = arg[p].user

\* ------------------------------------------------------------ toggle races
\* C21: a finished toggleLike on a song that exists has not failed with
\* "Song not found".
C21_ExistingSongNeverNotFound ==
    \A p \in Procs :
        (Done(p, "toggle") /\ Exists(arg[p].song)) => res[p] # ErrSongNotFound

MaxToggles == 5                     \* calls fired at one (user, song) pair

\* One more toggleLikeSong(u1, s1) is fired.
StartSame(p) ==
    /\ pc[p] = "idle"
    /\ nops < MaxToggles
    /\ nops' = nops + 1
    /\ arg' = [arg EXCEPT ![p] = [op |-> "toggle", user |-> "u1", song |-> "s1"]]
    /\ loc' = [loc EXCEPT ![p] = Snapshot("u1", "s1")]
    /\ res' = [res EXCEPT ![p] = "none"]
    /\ pc' = [pc EXCEPT ![p] = FirstStep("toggle")]
    /\ UNCHANGED <<accounts, oks, refs, song, pl, nfail>>

\* Promise.allSettled: the settled promise is consumed and tallied as
\* fulfilled or rejected.
Settle(p) ==
    /\ pc[p] = "done"
    /\ oks' = IF res[p] = "ok" THEN oks + 1 ELSE oks
    /\ pc' = [pc EXCEPT ![p] = "idle"]
    /\ loc' = [loc EXCEPT ![p] = NoLoc]
    /\ res' = [res EXCEPT ![p] = "none"]
    /\ UNCHANGED <<accounts, refs, song, pl, arg, nops, nfail>>

\* SpecSame: concurrent toggleLike calls on one (user, song) pair, no store
\* failure.
NextSame ==
    \E p \in Procs : \/ StartSame(p) \/ ToggleSteps(p) \/ T_CompUnlike(p)
                     \/ Settle(p)
SpecSame == Init /\ [][NextSame]_vars

\* C22: once all toggleLike(u1,s1) calls fired from "not liked" have settled,
\* u1 is in s1.likedBy exactly when the number of fulfilled calls is odd.
C22_OddSuccessesFlip ==
    Quiet => (IsLikedBy("s1", "u1") <=> (oks % 2 = 1))

\* C23: no song's likedBy holds the same user id twice.
C23_LikedByUnique ==
    \A s \in Songs, u \in Users : Occurrences(song[s].likedBy, u) <= 1

\* C24: no "liked" playlist holds the same song id twice.
C24_LikedPlaylistUnique ==
    \A i \in 1..Len(pl) : pl[i].type = "liked" => NoDuplicates(pl[i].songs)

\* Exactly two calls were made, by one user on two different existing songs,
\* and both have finished.
TwoCallsDifferentSongs ==
    /\ nops = 2
    /\ \A p \in Procs : pc[p] = "done" /\ Exists(arg[p].song)
    /\ arg["p1"].user = arg["p2"].user
    /\ arg["p1"].song # arg["p2"].song

\* C25: after two concurrent toggleLike calls of one user on different songs
\* have finished, the total-duration of the user's liked playlist is the sum
\* of the durations of the songs in it, and every song whose like was applied
\* is in the list.
C25_LikedDurationAfterConcurrentLikes ==
    TwoCallsDifferentSongs =>
        LET u == arg["p1"].user
        IN  /\ LikedDurationOf(u) = SumOfList(LikedSongsOf(u))
            /\ \A p \in Procs :
                  (res[p] = "ok" /\ loc[p].applied = "like") =>
                      Has(LikedSongsOf(u), arg[p].song)

\* ------------------------------------------------------------ one song, two users
\* The store after the users in likers have toggled s1 to liked, one after
\* the other in that order.
LikedState(likers) ==
    InitStore([s \in Songs |->
                  IF s = "s1" THEN [NewSong EXCEPT !.likedBy = likers,
                                                   !.likesCount = Len(likers)]
                  ELSE NewSong],
              [i \in 1..Len(AllDefaults) |->
                  IF AllDefaults[i].type = "liked" /\ Has(likers, AllDefaults[i].owner)
                  THEN SavePushed(AllDefaults[i], "s1", Duration["s1"])
                  ELSE AllDefaults[i]],
              [u \in Users |-> {}])

LikerLists == {<<>>, <<"u1">>, <<"u2">>, <<"u1", "u2">>, <<"u2", "u1">>}
InitPair == \E likers \in LikerLists : LikedState(likers)

\* SpecPair: concurrent toggleLike calls of both users on song s1, no store
\* failure.
StartPair(p) == \E u \in Users : Start(p, "toggle", u, "s1")
NextPair ==
    \E p \in Procs : \/ StartPair(p) \/ ToggleSteps(p) \/ T_CompUnlike(p)
                     \/ Finish(p)
SpecPair == InitPair /\ [][NextPair]_vars

\* Exactly two calls were made, by different users, and both have finished.
TwoCallsDifferentUsers ==
    /\ nops = 2
    /\ \A p \in Procs : pc[p] = "done"
    /\ arg["p1"].user # arg["p2"].user

\* C26: after two concurrent toggleLike calls of different users on s1 have
\* finished, both have succeeded, each user's membership in s1.likedBy is the
\* opposite of what it was, likesCount is the number of entries of likedBy,
\* and s1 is in each user's liked playlist exactly when that user is in
\* s1.likedBy.
C26_DifferentUsersIndependent ==
    TwoCallsDifferentUsers =>
        /\ song["s1"].likesCount = Len(song["s1"].likedBy)
        /\ \A p \in Procs :
              LET u == arg[p].user
              IN  /\ res[p] = "ok"
                  /\ IsLikedBy("s1", u) <=> ~Has(loc[p].preLikedBy, u)
                  /\ Occurrences(song["s1"].likedBy, u) <= 1
                  /\ IsLikedBy("s1", u) <=> Has(LikedSongsOf(u), "s1")

\* Both calls started before either updated the song; one user ended liked,
\* the other not liked.
C26_Witness ==
    /\ TwoCallsDifferentUsers
    /\ loc["p1"].preLikedBy = loc["p2"].preLikedBy
    /\ \E u, w \in Users : IsLikedBy("s1", u) /\ ~IsLikedBy("s1", w)

\* ------------------------------------------------------------ like races
\* SpecLikeConc: concurrent likeSong and toggleLikeSong calls on song s1, no
\* store failure.
StartLikeOrToggle(p) ==
    \E op \in {"like", "toggle"}, u \in Users : Start(p, op, u, "s1")

NextLikeConc ==
    \E p \in Procs : \/ StartLikeOrToggle(p) \/ ToggleSteps(p) \/ T_CompUnlike(p)
                     \/ L_Find(p) \/ L_Save(p) \/ Finish(p)
SpecLikeConc == Init /\ [][NextLikeConc]_vars

\* C27: after two concurrent like calls of different users on s1 (not liked
\* by either before) have finished, both have succeeded, both users are in
\* s1.likedBy and likesCount is the number of entries of likedBy.
C27_ConcurrentLikesDifferentUsers ==
    (TwoCallsDifferentUsers /\ \A p \in Procs : arg[p].op = "like") =>
        /\ \A p \in Procs : res[p] = "ok" /\ IsLikedBy("s1", arg[p].user)
        /\ song["s1"].likesCount = Len(song["s1"].likedBy)

\* Two calls of one operation for the pair (u1, s1), started from 'not liked',
\* are the only calls made and both have passed their first store call.
TwoCallsSamePair(op) ==
    /\ nops = 2
    /\ \A p \in Procs : /\ arg[p].op = op /\ arg[p].user = "u1"
                        /\ pc[p] \notin {"idle", FirstStep(op)}

\* C29: of two concurrent toggleLike calls for (u1, s1) started from 'not
\* liked', at most one applies the conditional add, and u1 is in s1.likedBy at
\* most once; two concurrent like calls can both pass the already-liked check
\* and both succeed (C29_Witness).
C29_ToggleAddsExclusive ==
    TwoCallsSamePair("toggle") =>
        /\ ~(\A p \in Procs : loc[p].applied = "like")
        /\ Occurrences(song["s1"].likedBy, "u1") <= 1

C29_Witness ==
    /\ TwoCallsSamePair("like")
    /\ \A p \in Procs : Done(p, "like") /\ res[p] = "ok" /\ loc[p].applied = "like"
    /\ Occurrences(song["s1"].likedBy, "u1") = 2

\* The toggle case of C29: both calls have run to completion.
C29_TogglesDone ==
    TwoCallsSamePair("toggle") /\ \A p \in Procs : Done(p, "toggle")

\* ------------------------------------------------------------ like / unlike
\* SpecDirectFail: one likeSong or unlikeSong call at a time; the store calls
\* of the playlist sync may fail.
StartSeqDirect(p) ==
    /\ Quiet
    /\ \E op \in {"like", "unlike"}, u \in Users, s \in SongIds : Start(p, op, u, s)

NextDirectFail ==
    \E p \in Procs : \/ StartSeqDirect(p) \/ DirectSteps(p) \/ LikedSteps(p)
                     \/ RollbackSteps(p) \/ PlFail(p) \/ Finish(p)
SpecDirectFail == InitSome /\ [][NextDirectFail]_vars

\* The call of p saved its song mutation and its playlist sync then failed.
SyncFailed(p, op) ==
    Done(p, op) /\ loc[p].applied = op /\ loc[p].err # "none"

\* C28: a like whose playlist sync failed ends as a failure with the user not
\* in likedBy and likesCount = |likedBy|; an unlike whose playlist sync failed
\* ends as a failure with the user in likedBy exactly once.
C28_DirectionalRollback ==
    \A p \in Procs :
        LET u == arg[p].user
            s == arg[p].song
        IN  /\ SyncFailed(p, "like") =>
                  /\ res[p] # "ok"
                  /\ ~IsLikedBy(s, u)
                  /\ song[s].likesCount = Len(song[s].likedBy)
            /\ SyncFailed(p, "unlike") =>
                  /\ res[p] # "ok"
                  /\ Occurrences(song[s].likedBy, u) = 1
                  /\ song[s].likesCount = Len(song[s].likedBy)

C28_Witness == \E p \in Procs : SyncFailed(p, "unlike")

\* The like case of C28.
C28_LikeRolledBack == \E p \in Procs : SyncFailed(p, "like")

\* ------------------------------------------------------------ frame of the like path
\* The step of call p writes no playlist document other than the 'liked'
\* playlist of the user the call was made for, and creates or deletes none.
OnlyOwnLikedWritten(p) ==
    /\ Len(pl') = Len(pl)
    /\ \A i \in 1..Len(pl) :
           pl'[i] # pl[i] => (pl[i].owner = arg[p].user /\ pl[i].type = "liked")

\* C30: every step of a toggleLike, like or unlike call for user U leaves every
\* playlist owned by another user and every playlist of another type as it was.
C30_LikePathFrame ==
    [][\A p \in Procs :
          (pc'[p] # pc[p] /\ arg'[p].op \in Ops) => OnlyOwnLikedWritten(p)]_vars

C30_Witness ==
    \E p \in Procs :
        /\ pc[p] = "done" /\ res[p] = "ok" /\ arg[p].op \in Ops
        /\ Has(LikedSongsOf(arg[p].user), arg[p].song)
        /\ \E i \in 1..Len(pl) : pl[i].owner # arg[p].user /\ pl[i].type = "liked"

\* ------------------------------------------------------------ toggleLike and recordPlay
\* SpecTogglePlay: toggleLikeSong calls (made one after the other by p1) run
\* concurrently with addToRecentlyPlayed calls (made one after the other by
\* p2), all for user u1; no store failure.
StartTogglePlay(p) ==
    IF p = "p1"
    THEN \E s \in Songs : Start(p, "toggle", "u1", s)
    ELSE \E s \in PlayedSongs : StartPlay(p, "u1", s)

NextTogglePlay ==
    \E p \in Procs : \/ StartTogglePlay(p) \/ ToggleSteps(p) \/ PlaySteps(p)
                     \/ Finish(p)
SpecTogglePlay == InitRecent /\ [][NextTogglePlay]_vars

\* What a toggleLikeSong / addToRecentlyPlayed call run alone from the state
\* at its start leaves behind.
ToggleAlone(p) ==
    LET u == arg[p].user
        s == arg[p].song
        was == Has(loc[p].preLikedBy, u)
    IN  /\ res[p] = "ok"
        /\ song[s].likedBy = IF was THEN Without(loc[p].preLikedBy, u)
                             ELSE Append(loc[p].preLikedBy, u)
        /\ song[s].likesCount = IF was THEN loc[p].preCount - 1
                                ELSE loc[p].preCount + 1
        /\ LikedSongsOf(u) = IF was THEN Without(loc[p].prePl, s)
                             ELSE Append(loc[p].prePl, s)
        /\ LikedDurationOf(u) = IF was THEN Max0(loc[p].preDur - Duration[s])
                                ELSE loc[p].preDur + Duration[s]

PlayAlone(p) ==
    /\ res[p] = "ok"
    /\ RecentSongsOf(arg[p].user) = MoveToFront(loc[p].prePl, arg[p].song)
    /\ RecentDurationOf(arg[p].user) = SumOfList(RecentSongsOf(arg[p].user))

\* The step of a recordPlay leaves every song and every 'liked' playlist as it
\* was; the step of a toggleLike leaves every 'recently_played' playlist as it
\* was.
DisjointStep(p) ==
    /\ Len(pl') = Len(pl)
    /\ arg'[p].op = "play" =>
           /\ song' = song
           /\ \A i \in 1..Len(pl) : pl[i].type = "liked" => pl'[i] = pl[i]
    /\ arg'[p].op = "toggle" =>
           \A i \in 1..Len(pl) : pl[i].type = "recently_played" => pl'[i] = pl[i]

\* C31: recordPlay writes no song and no 'liked' playlist, toggleLike writes no
\* 'recently_played' playlist, and each call interleaved with the other ends in
\* the state it produces when run alone.
C31_TogglePlayDisjoint ==
    /\ [][\A p \in Procs : pc'[p] # pc[p] => DisjointStep(p)]_vars
    /\ [](\A p \in Procs : /\ Done(p, "toggle") => ToggleAlone(p)
                           /\ Done(p, "play") => PlayAlone(p))

\* Both calls are in flight: the toggle has removed u1 from s1.likedBy and is
\* about to save the liked playlist, the play is about to save a full list.
C31_Witness ==
    /\ pc["p1"] = "r_save" /\ pc["p2"] = "rp_save"
    /\ loc["p1"].applied = "unlike"
    /\ Len(loc["p2"].prePl) = MaxRecent
    /\ arg["p1"].song = "s1" /\ arg["p2"].song = "s1"

\* ------------------------------------------------------------ removeFromLikedSongs alone
\* Liked playlists of u1 as earlier calls can have left them: empty, both
\* songs added one after the other, and both songs added by two overlapping
\* addToLikedSongs calls (each saved the total it computed from the empty list).
LikedStates ==
    {[songs |-> <<>>, total |-> 0],
     [songs |-> <<"s1", "s2">>, total |-> Duration["s1"] + Duration["s2"]],
     [songs |-> <<"s1", "s2">>, total |-> Duration["s2"]],
     [songs |-> <<"s2", "s1">>, total |-> Duration["s1"]]}

InitLiked ==
    \E st \in LikedStates :
        InitWith(<<[NewPlaylist("u1", "liked") EXCEPT
                       !.songs = st.songs, !.totalDuration = st.total,
                       !.v = Len(st.songs)],
                   NewPlaylist("u1", "recently_played")>> \o DefaultsOf("u2"))

\* SpecLikedSeq: addToLikedSongs / removeFromLikedSongs called one at a time
\* on such a playlist.
SpecLikedSeq == InitLiked /\ [][NextLikedPl]_vars

\* C32: removeFromLikedSongs(U,S) changes nothing when S is not in U's liked
\* playlist; when S is there it removes S and sets totalDuration to
\* max(0, totalDuration - duration(S)); no playlist has a negative
\* totalDuration.
C32_RemoveIfPresent ==
    /\ \A i \in 1..Len(pl) : pl[i].totalDuration >= 0
    /\ \A p \in Procs :
           LET u == arg[p].user
               s == arg[p].song
           IN  (Done(p, "removeLiked") /\ FindPlaylist(u, "liked") # 0) =>
                   /\ res[p] = "ok"
                   /\ IF Has(loc[p].prePl, s)
                      THEN /\ LikedSongsOf(u) =
                                  RemoveAt(loc[p].prePl, IndexOf(loc[p].prePl, s))
                           /\ LikedDurationOf(u) =
                                  Max0(loc[p].preDur - DurationOf(s))
                      ELSE LikedPlaylistUnchanged(p)

\* A removal whose subtraction was floored.
C32_Witness ==
    \E p \in Procs :
        /\ Done(p, "removeLiked") /\ res[p] = "ok"
        /\ Has(loc[p].prePl, arg[p].song)
        /\ loc[p].preDur < DurationOf(arg[p].song)
        /\ LikedDurationOf(arg[p].user) = 0

\* A removal of a song that is not in the list.
C32_AbsentNoOp ==
    \E p \in Procs :
        /\ Done(p, "removeLiked") /\ res[p] = "ok"
        /\ ~Has(loc[p].prePl, arg[p].song)
        /\ loc[p].prePl # <<>>

\* ------------------------------------------------------------ liked playlist through the routes
\* The finished request of p asked to add a song to, or remove it from, a
\* playlist of type 'liked': POST /:id/songs and DELETE /:id/songs/:songId of
\* routes/songs.ts (likeSong / unlikeSong), or POST /:id/songs of
\* routes/playlists.ts (addToLikedSongs called directly).
LikedTarget(p) ==
    \/ arg[p].op = "addLiked"
    \/ /\ arg[p].op \in SongOps
       /\ PlaylistExists(arg[p].pid)
       /\ pl[arg[p].pid].type = "liked"

\* C33: after a successful add-song or remove-song request on a 'liked'
\* playlist, the owner is in the song's likedBy exactly when the song is in
\* the liked playlist, and likesCount is the number of entries of likedBy.
C33_LikedPlaylistViaLike ==
    \A p \in Procs :
        (/\ pc[p] = "done" /\ res[p] = "ok"
         /\ Exists(arg[p].song) /\ LikedTarget(p)) =>
            LET u == arg[p].user
                s == arg[p].song
            IN  /\ IsLikedBy(s, u) <=> Has(LikedSongsOf(u), s)
                /\ song[s].likesCount = Len(song[s].likedBy)

\* ------------------------------------------------------------ POST /register
ErrAlreadyRegistered == "Email already registered"
NoAccounts == {}

\* User.findOne({$or: [{email}, {username}]}): 409 when the user exists.
REG_Find(p) ==
    /\ pc[p] = "reg_find"
    /\ IF arg[p].user \in accounts
       THEN /\ pc' = [pc EXCEPT ![p] = "done"]
            /\ res' = [res EXCEPT ![p] = ErrAlreadyRegistered]
       ELSE /\ pc' = [pc EXCEPT ![p] = "reg_save"]
            /\ res' = res
    /\ UNCHANGED <<accounts, oks, refs, song, pl, arg, loc, nops, nfail>>

\* await user.save(); the handler then calls createDefaultPlaylistsForUser
\* inside its own try/catch.
REG_Save(p) ==
    /\ pc[p] = "reg_save"
    /\ accounts' = accounts \cup {arg[p].user}
    /\ pc' = [pc EXCEPT ![p] = "cd_user"]
    /\ UNCHANGED <<oks, refs, song, pl, arg, loc, res, nops, nfail>>

DefaultsPcs == {"cd_user", "cd_find_liked", "cd_create_liked",
                "cd_find_recent", "cd_create_recent"}

\* A store call of createDefaultPlaylistsForUser rejects: the catch of the
\* handler logs playlistError and the handler goes on to the 201 response.
REG_DefaultsFail(p) ==
    /\ pc[p] \in DefaultsPcs
    /\ arg[p].op = "register"
    /\ nfail < MaxFail
    /\ nfail' = nfail + 1
    /\ loc' = [loc EXCEPT ![p].err = ErrStore]
    /\ pc' = [pc EXCEPT ![p] = "done"]
    /\ res' = [res EXCEPT ![p] = "ok"]
    /\ UNCHANGED <<accounts, oks, refs, song, pl, arg, nops>>

RegisterSteps(p) == REG_Find(p) \/ REG_Save(p) \/ InitSteps(p)

StartRegister(p, u) ==
    /\ pc[p] = "idle"
    /\ nops < MaxOps
    /\ nops' = nops + 1
    /\ arg' = [arg EXCEPT ![p] = [op |-> "register", user |-> u, song |-> NoSong]]
    /\ loc' = [loc EXCEPT ![p] = NoLoc]
    /\ res' = [res EXCEPT ![p] = "none"]
    /\ pc' = [pc EXCEPT ![p] = FirstStep("register")]
    /\ UNCHANGED <<accounts, oks, refs, song, pl, nfail>>

\* No user has registered and no playlist exists.
InitRegister ==
    InitAccounts([s \in Songs |-> NewSong], <<>>, [u \in Users |-> {}], NoAccounts)

\* SpecRegister: one request at a time: POST /register of any user, then
\* POST /init-defaults and toggleLikeSong of a registered user; a store call
\* of the initializer may fail during a registration.
StartSeqRegister(p) ==
    /\ Quiet
    /\ \E u \in Users :
          \/ StartRegister(p, u)
          \/ u \in accounts /\ StartInit(p, u)
          \/ u \in accounts /\ Start(p, "toggle", u, "s1")

NextRegister ==
    \E p \in Procs : \/ StartSeqRegister(p) \/ RegisterSteps(p)
                     \/ REG_DefaultsFail(p) \/ ToggleSteps(p) \/ T_CompLike(p)
                     \/ Finish(p)
SpecRegister == InitRegister /\ [][NextRegister]_vars

\* C34: after a registration that ended in success the new user owns exactly
\* one 'liked' and one 'recently_played' playlist, and a toggleLike of a
\* registered user does not fail for a missing 'liked' playlist.
C34_RegisteredHasDefaults ==
    \A p \in Procs :
        /\ (Done(p, "register") /\ res[p] = "ok") =>
               \A t \in DefaultTypes : CountOf(arg[p].user, t) = 1
        /\ Done(p, "toggle") => loc[p].err # ErrNoLikedPlaylist

\* ------------------------------------------------------------ song-store failure
\* Mutant: the rejection is swallowed and the call resolves.
SongFail_Swallowed(p) ==
    /\ pc[p] \in {"t_add", "t_remove"}
    /\ nfail < MaxFail
    /\ nfail' = nfail + 1
    /\ loc' = [loc EXCEPT ![p].err = ErrStore]
    /\ pc' = [pc EXCEPT ![p] = "done"]
    /\ res' = [res EXCEPT ![p] = "ok"]
    /\ UNCHANGED <<accounts, oks, refs, song, pl, arg, nops>>

\* A conditional findOneAndUpdate of toggleLikeSong rejects (failure or
\* timeout, nothing written): the error leaves through the outer
\* catch-and-rethrow; neither inner catch is entered.
SongFail(p) ==
    /\ pc[p] \in {"t_add", "t_remove"}
    /\ nfail < MaxFail
    /\ nfail' = nfail + 1
    /\ loc' = [loc EXCEPT ![p].err = ErrStore]
    /\ pc' = [pc EXCEPT ![p] = "done"]
    /\ res' = [res EXCEPT ![p] = ErrStore]
    /\ UNCHANGED <<accounts, oks, refs, song, pl, arg, nops>>

\* SpecSongFail: one toggleLike at a time; its conditional updates may fail.
NextSongFail ==
    \E p \in Procs : \/ StartSeqToggle(p) \/ ToggleSteps(p) \/ SongFail(p)
                     \/ Finish(p)
SpecSongFail == Init /\ [][NextSongFail]_vars

\* The toggleLike of p ended on a rejected conditional update.
SongStepFailed(p) ==
    Done(p, "toggle") /\ loc[p].applied = "none" /\ loc[p].err = ErrStore

\* C35: a toggleLike whose conditional song update was rejected before any
\* update applied has failed, has changed neither the song nor the liked
\* playlist, and has issued no compensating update.
C35_SongStepPlainFailure ==
    \A p \in Procs :
        SongStepFailed(p) =>
            /\ res[p] = ErrStore
            /\ loc[p].comp = "none"
            /\ Exists(arg[p].song) => SongUnchanged(p)
            /\ LikedPlaylistUnchanged(p)
            /\ \A i \in 1..Len(pl) :
                   pl[i].type # "liked" => pl[i] = AllDefaults[i]

\* The rejected call was made for a song the user had liked.
C35_Witness ==
    \E p \in Procs :
        /\ SongStepFailed(p)
        /\ Exists(arg[p].song)
        /\ Has(loc[p].preLikedBy, arg[p].user)

\* ------------------------------------------------------------ termination of toggleLike
\* SpecToggleLive: concurrent toggleLike calls on s1; every store call may
\* fail.  The event loop resumes every call whose awaited store call has
\* settled, so the steps of each call are weakly fair; failures are not.
StartToggleOne(p) == \E u \in Users : Start(p, "toggle", u, "s1")

NextToggleLive ==
    \E p \in Procs : \/ StartToggleOne(p) \/ ToggleSteps(p) \/ CompSteps(p)
                     \/ SongFail(p) \/ PlFail(p) \/ CompFail(p) \/ Finish(p)
SpecToggleLive ==
    /\ Init
    /\ [][NextToggleLive]_vars
    /\ \A p \in Procs : WF_vars(ToggleSteps(p) \/ CompSteps(p))

\* Position of a call in toggleLikeSong: the conditional add, the conditional
\* remove, the three store calls of the playlist step, the compensating
\* update, the return.
Rank(c) ==
    CASE c = "t_add" -> 1
      [] c = "t_remove" -> 2
      [] c \in {"a_find", "r_find"} -> 3
      [] c \in {"a_song", "r_song"} -> 4
      [] c \in {"a_save", "r_save"} -> 5
      [] c \in {"t_comp_like", "t_comp_unlike"} -> 6
      [] c = "done" -> 7
      [] OTHER -> 0

TogglePcs == {"t_add", "t_remove"} \cup PostUpdatePcs

\* C36: every step of a toggleLike call moves it forward in the method (no
\* step is run twice, at most two conditional updates, one playlist step and
\* one compensating update), and every call that has started returns.
C36_ToggleTerminates ==
    /\ [][\A p \in Procs :
             (pc[p] \in TogglePcs /\ pc'[p] # pc[p]) =>
                 Rank(pc'[p]) > Rank(pc[p])]_vars
    /\ \A p \in Procs : (pc[p] \in TogglePcs) ~> (pc[p] = "done")

\* A call that ran both conditional updates, the playlist step and the
\* compensating update has returned.
C36_Witness ==
    \E p \in Procs :
        /\ Done(p, "toggle")
        /\ loc[p].applied = "unlike"
        /\ loc[p].comp # "none"

\* ------------------------------------------------------------ all operations
\* SpecAllOps: one request at a time: the playlist routes, toggleLikeSong,
\* likeSong, unlikeSong and addToRecentlyPlayed.
StartSeqAll(p) ==
    \/ StartSeqRoute(p)
    \/ /\ Quiet
       /\ \E u \in Users, s \in Songs :
             \/ \E op \in Ops : Start(p, op, u, s)
             \/ StartPlay(p, u, s)

NextAllOps ==
    \E p \in Procs :
        \/ StartSeqAll(p) \/ RouteSteps(p) \/ ToggleSteps(p) \/ DirectSteps(p)
        \/ PlaySteps(p) \/ Respond(p)
SpecAllOps == InitRoutes /\ [][NextAllOps]_vars

\* C37: no step changes the type or the is-default flag of an existing
\* playlist; a default playlist stays a default playlist of its type.
C37_TypeAndDefaultImmutable ==
    [][\A i \in 1..Len(pl) :
          /\ pl[i].isDefault =>
                (pl'[i].isDefault /\ pl'[i].type = pl[i].type)
          /\ (pl[i] # Deleted /\ pl'[i] # Deleted) =>
                (pl'[i].isDefault = pl[i].isDefault /\ pl'[i].type = pl[i].type)]_vars

\* The owner's update of a default playlist was applied.
C37_Witness ==
    \E i \in 1..Len(pl) :
        /\ pl[i].isDefault /\ pl[i].name = NewName
        /\ \E p \in Procs : Done(p, "updatePl") /\ res[p] = "ok" /\ arg[p].pid = i

\* ------------------------------------------------------------ toggle round trip
\* SpecRoundTrip: toggleLike calls one after the other, no store failure; the
\* call of p1 has returned before p2 calls, and p1 calls only when p2 is idle.
StartRound(p) ==
    /\ IF p = "p1" THEN pc["p2"] = "idle" ELSE pc["p1"] = "done"
    /\ \E u \in Users, s \in Songs : Start(p, "toggle", u, s)

NextRoundTrip ==
    \E p \in Procs : StartRound(p) \/ ToggleSteps(p) \/ Finish(p)
SpecRoundTrip == InitPair /\ [][NextRoundTrip]_vars

\* p1 made the first and p2 the second of two successive toggleLike calls for
\* one user and one song, and no other call was made.
TwoSuccessiveToggles ==
    /\ nops = 2
    /\ Done("p1", "toggle") /\ Done("p2", "toggle")
    /\ arg["p1"].user = arg["p2"].user
    /\ arg["p1"].song = arg["p2"].song

\* C38: two successive toggleLike(U,S) calls both succeed, report opposite
\* liked flags, and leave U's membership in S.likedBy, S.likesCount, the
\* presence of S in U's liked playlist and its totalDuration as they were
\* before the first call.
C38_ToggleRoundTrip ==
    TwoSuccessiveToggles =>
        LET u == arg["p1"].user
            s == arg["p1"].song
        IN  /\ res["p1"] = "ok" /\ res["p2"] = "ok"
            /\ loc["p1"].isLiked # loc["p2"].isLiked
            /\ IsLikedBy(s, u) <=> Has(loc["p1"].preLikedBy, u)
            /\ song[s].likesCount = loc["p1"].preCount
            /\ Has(LikedSongsOf(u), s) <=> Has(loc["p1"].prePl, s)
            /\ LikedDurationOf(u) = loc["p1"].preDur

\* An unlike followed by a like, for a song another user likes too.
C38_Witness ==
    /\ TwoSuccessiveToggles
    /\ ~loc["p1"].isLiked /\ loc["p2"].isLiked
    /\ Len(song[arg["p1"].song].likedBy) = 2

\* A like followed by an unlike.
C38_LikeThenUnlike ==
    TwoSuccessiveToggles /\ loc["p1"].isLiked /\ ~loc["p2"].isLiked

\* ------------------------------------------------------------ concurrent plays
\* The only two recordPlay calls made, for one user and two different songs,
\* have both returned success.
TwoPlaysSucceeded ==
    /\ nops = 2
    /\ \A p \in Procs : Done(p, "play") /\ res[p] = "ok"
    /\ arg["p1"].user = arg["p2"].user
    /\ arg["p1"].song # arg["p2"].song

\* C39: after two recordPlay calls for one user and different songs X and Y
\* have both succeeded, X and Y are the first two entries of the user's
\* recently-played list, the list has no duplicate and at most 50 entries,
\* and totalDuration is the sum of the durations of the listed songs.
C39_NoPlayLost ==
    TwoPlaysSucceeded =>
        LET list == RecentSongsOf(arg["p1"].user)
        IN  /\ Len(list) >= 2
            /\ {list[1], list[2]} = {arg["p1"].song, arg["p2"].song}
            /\ NoDuplicates(list)
            /\ Len(list) <= MaxRecent
            /\ RecentDurationOf(arg["p1"].user) = SumOfList(list)

\* Both plays succeeded on a list that was full and held one of the songs.
C39_Witness ==
    /\ TwoPlaysSucceeded
    /\ Len(RecentSongsOf("u1")) = MaxRecent
    /\ \E p \in Procs : Has(loc[p].prePl, "s1") /\ arg[p].song = "s1"

\* The two calls overlapped: one of them lost the __v guard of its save.
C39_Overlap ==
    /\ nops = 2
    /\ \A p \in Procs : Done(p, "play")
    /\ \E p \in Procs : res[p] = ErrVersion

\* ------------------------------------------------------------ POST /:id/like
\* The words of error.message, for the includes() tests of the handler.
Words(e) ==
    CASE e = ErrSongNotFound -> <<"Song", "not", "found">>
      [] e = ErrNoLikedPlaylist -> <<"Liked", "Songs", "playlist", "not", "found">>
      [] e = ErrAlreadyLiked -> <<"Song", "is", "already", "liked">>
      [] e = ErrNotLiked -> <<"Song", "is", "not", "liked">>
      [] e = ErrVersion -> <<"No", "matching", "document", "found">>
      [] OTHER -> <<e>>

\* error.message.includes(w) for a phrase w given by its words.
Includes(e, w) ==
    \E i \in 1..(Len(Words(e)) - Len(w) + 1) :
        SubSeq(Words(e), i, i + Len(w) - 1) = w

Http200 == "200 success"
Http404 == "404 Song not found"
Http400 == "400 " \o ErrAlreadyLiked
Http500 == "500 Failed to toggle like status"

\* The response of the handler for the outcome r of toggleLikeSong.
ResponseOf(r) ==
    IF r = "ok" THEN Http200
    ELSE IF Includes(r, <<"not", "found">>) THEN Http404
    ELSE IF Includes(r, <<"already", "liked">>) \/ Includes(r, <<"not", "liked">>)
    THEN Http400
    ELSE Http500

\* res.status(...).json(...) of the handler, in the try or in the catch.
TL_Reply(p) ==
    /\ pc[p] = "done"
    /\ arg[p].op = "toggle"
    /\ res' = [res EXCEPT ![p] = ResponseOf(res[p])]
    /\ pc' = [pc EXCEPT ![p] = "replied"]
    /\ UNCHANGED <<accounts, oks, refs, song, pl, arg, loc, nops, nfail>>

\* The request is over.
TL_Close(p) ==
    /\ pc[p] = "replied"
    /\ pc' = [pc EXCEPT ![p] = "idle"]
    /\ loc' = [loc EXCEPT ![p] = NoLoc]
    /\ res' = [res EXCEPT ![p] = "none"]
    /\ UNCHANGED <<accounts, oks, refs, song, pl, arg, nops, nfail>>

\* SpecEndpoint: POST /:id/like requests, one at a time; a user may have no
\* default playlists and the playlist steps may fail.
NextEndpoint ==
    \E p \in Procs : \/ StartSeqToggle(p) \/ ToggleSteps(p) \/ CompSteps(p)
                     \/ PlFail(p) \/ TL_Reply(p) \/ TL_Close(p)
SpecEndpoint == InitSome /\ [][NextEndpoint]_vars

\* C40: the like-toggle endpoint answers 'Song not found' only when the song
\* does not exist; a toggle that failed for a missing Liked Songs playlist
\* gets a different answer.
C40_NotFoundOnlyForMissingSong ==
    \A p \in Procs :
        (pc[p] = "replied" /\ Exists(arg[p].song)) => res[p] # Http404

====
